---- MODULE Spec2Model ----
(***************************************************************************)
(* Model of the real-time stimulus synthesis engine of acoustics_101       *)
(* (src/stimulus.py) and of the psychoacoustic methods that drive it       *)
(* (src/PaMethods.py, src/pa_methods.py), as specifications over one set   *)
(* of variables:                                                           *)
(*   SpecEnv    an EnvelopeGenerator used from one thread;                 *)
(*   SpecConc   its setter (control thread) interleaved, statement by      *)
(*              statement, with next(n) (audio thread);                    *)
(*   SpecTone   a PureToneMono on its PortAudio stream: play, stop, done,  *)
(*              the parameter setters and the stream's callback;           *)
(*   SpecCtor   the constructors of the tones, statement by statement;     *)
(*   SpecAdjust the adjustment of a stimulus's parameters by name;         *)
(*   SpecMoA    MethodOfAdjustment: selectTest, startTest, stopTest and    *)
(*              the update tick that chooses the next test value.          *)
(*                                                                         *)
(* Numbers.  The code computes in IEEE floating point; the model computes  *)
(* the same expressions exactly, on a grid of Grid points per value unit.  *)
(* Fs divides Grid, so rate * n * Ts is exact, and (num - 1) divides every *)
(* distance np.linspace is asked to split, so its points are exact too.    *)
(* Rounding of the float operations is not modelled.                       *)
(***************************************************************************)
EXTENDS Integers, Sequences, FiniteSets, TLC

\* ------------------------------------------------------------------ bounds
\* Largest block size n (frame_count) a caller asks for.
MaxN == 3
\* Setpoints are assigned from -MaxSet .. MaxSet sample periods' worth of value.
MaxSet == 3
\* Rates are drawn from 1 .. MaxRate value units per second.
MaxRate == 2
\* Half the (scaled down) sample rate, in Hz.
HalfFs == 1
\* Distinct values assigned to setpoint while one next(n) is in progress.
MaxWrites == 1
\* With two threads, setpoints are assigned from 0 .. MaxSetConc sample periods' worth.
MaxSetConc == 3

\* updateData is modelled until the log of the test parameter has MaxTicks entries.
MaxTicks == 5
\* The test parameter's domain ends at DomainMult initial search precisions
\* (15 in the program: 15000 against 1000).
DomainMult == 3

\* Values given to an adjustment are 0 .. MaxAdj.
MaxAdj == 1
\* An adjust_stimulus call passes 1 .. MaxKwargs keyword arguments.
MaxKwargs == 2

\* Initial amplitudes given to a constructor are -1 .. MaxAmp.
MaxAmp == 2

\* Callbacks are modelled until this many frames have been produced since play().
MaxFrames == 5
\* Finite durations are 1 .. MaxDuration seconds.
MaxDuration == 1
\* The tone's frequencies are 0 .. MaxFreq sample periods' worth of value.
MaxFreq == 1

\* Calls of adjustStimulus between one selectTest and the next.
MaxAdjusts == 1

\* Assignments to the parameters of one tone.
MaxAssign == 2

\* The largest value handed to a QFloatSlider property.
MaxSlider == 4

\* The sample rate in Hz (44100 or 48000 in the program).
Fs == 2 * HalfFs

VARIABLES
    env,        \* the EnvelopeGenerator: setpoint, current, rate, steady_state
    envelope,   \* the block the last next(n) returned (<<>> when it raised)
    raised,     \* the last next(n) ended in the AssertionError of line 380
    branch,     \* the path the last next(n) took
    n_arg,      \* the n of the last next(n)
    pre,        \* the generator as it was when the last operation began
    last_op,    \* "init", "set" or "next"
    last_out,   \* the value emitted last before envelope (at first: the value at rest)
    start_val,  \* current when a setpoint was last assigned to the generator at rest
    changes,    \* setpoint assignments since then: 0 none yet, 1 that one, 2 more
    pc,         \* audio thread: "idle", or the line of next(n) it executes next
    cpc,        \* control thread: "idle", or "L341" inside the setpoint setter
    loc,        \* the locals of the next(n) in progress
    targets,    \* the values setpoint has held since the next(n) in progress began
    gen_f,      \* PureToneMono._f, the frequency's EnvelopeGenerator
    gen_A,      \* PureToneMono._A, the amplitude's EnvelopeGenerator
    theta,      \* PureToneMono._theta, the phase carried to the next buffer
    frame,      \* Stimulus._frame, frames produced since play()
    pa_flag,    \* Stimulus.pa_flag: "unset" before the first play(), "paContinue", "paComplete"
    stream,     \* the PortAudio stream: "stopped", "active", "finished" or "closed"
    duration,   \* Stimulus.duration: [inf |-> TRUE] or a number of seconds
    data,       \* the samples the last callback returned: <<amplitude, phase>> each
    tone_op,    \* the last operation on the tone: "callback", "play", "error" for one that
                \* raised on the closed stream, "control" for the others
    frame_count,\* the frame_count of the last callback
    theta_in,   \* _theta when the last callback began
    theta0,     \* _theta when play() last started the stream (0 once f_const is FALSE)
    f_const,    \* the frequency has been at rest on one value since that play()
    a_const,    \* the amplitude has been at rest on one value since that play()
    cb_raised,  \* the last callback ended in an exception
    ctl,        \* the control thread: "idle", or "in_stop" / "in_done" while it waits
                \* inside stop_stream() for the callback thread
    late,       \* callbacks that ran since stop_stream() was last entered
    ctor,       \* a constructor call: its arguments, the statement it is at, what it created
    adj,        \* a PaMethods object's stimulus and the last adjustment made through it
    moa,        \* a MethodOfAdjustment: the selected test, its testStimulus and
                \* testResults, the test parameter (value, log), the user parameter
                \* (user, user_log), the other parameters' logs, the last operation
    issued,     \* the values the test parameter was given since selectTest, in order
    slider,     \* a QFloatSlider: its four properties and the last call made on it
    tone,       \* a PureToneMono or PureToneStereo: its generators by attribute name,
                \* its phases, frame counter and flag, and the last operation on it
    quiet       \* the control thread has made its last assignment; the frame_count
                \* of every later next(n)

envVars == <<env, envelope, raised, branch, n_arg, pre, last_op, last_out,
             start_val, changes>>

threadVars == <<pc, cpc, loc, targets>>

toneVars == <<gen_f, gen_A, theta, frame, pa_flag, stream, duration, data, tone_op,
              frame_count, theta_in, theta0, f_const, a_const, cb_raised, ctl, late>>

otherVars == <<ctor, adj, moa, issued, slider, tone, quiet>>

vars == <<envVars, threadVars, toneVars, otherVars>>

\* ------------------------------------------------------------- arithmetic
Abs(x) == IF x < 0 THEN -x ELSE x

\* np.sign
sign(x) == IF x > 0 THEN 1 ELSE IF x < 0 THEN -1 ELSE 0

RECURSIVE Gcd(_, _)
Gcd(a, b) == IF b = 0 THEN a ELSE Gcd(b, a % b)

RECURSIVE LcmUpTo(_)
LcmUpTo(k) == IF k <= 1 THEN 1 ELSE (LcmUpTo(k - 1) * k) \div Gcd(LcmUpTo(k - 1), k)

\* Every num - 1 that np.linspace divides by (num <= MaxN) divides LinDen.
LinDen == LcmUpTo(MaxN - 1)

\* Grid points per value unit.
Grid == Fs * LinDen

\* The values a caller assigns: whole multiples of one sample period's worth (1/Fs).
SetpointValues == {LinDen * s : s \in (-MaxSet) .. MaxSet}

\* The values the control thread assigns while the audio thread runs.
ConcSetpointValues == {LinDen * s : s \in 0 .. MaxSetConc}

Rates == 1 .. MaxRate

BlockSizes == 1 .. MaxN

\* np.full(n, v)
full(n, v) == [i \in 1 .. n |-> v]

\* np.linspace(start, stop, num): num points, both ends included; one point is start.
linspace(start, stop, num) ==
    [i \in 1 .. num |->
        IF num = 1 THEN start ELSE start + ((i - 1) * (stop - start)) \div (num - 1)]

\* ------------------------------------------------------ EnvelopeGenerator
\* __init__: at rest on the initial setpoint.
EnvelopeGenerator(sp, r) ==
    [setpoint |-> sp, current |-> sp, rate |-> r, steady_state |-> TRUE]

\* The setpoint setter (both statements).
set(g, value) == [g EXCEPT !.setpoint = value, !.steady_state = FALSE]

\* line 368
change_until_steady_state(g) == g.setpoint - g.current

\* lines 369-370: direction * rate * n * Ts, on the grid.
current_change(g, n) ==
    (sign(change_until_steady_state(g)) * g.rate * n * Grid) \div Fs

\* lines 378-379: int(|change| * inv_rate * Fs); the change is on the grid.
samples_until_steady_state(g) ==
    (Abs(change_until_steady_state(g)) * Fs) \div (g.rate * Grid)

\* line 371
StillRamping(g, n) == Abs(change_until_steady_state(g)) > Abs(current_change(g, n))

\* line 380
AssertHolds(g, n) == samples_until_steady_state(g) < n

\* lines 364-365: at rest, n copies of the setpoint.
SteadyResult_dropsFlag(g, n) ==
    [gen |-> [g EXCEPT !.steady_state = FALSE], out |-> full(n, g.setpoint),
     raised |-> FALSE, branch |-> "steady"]

SteadyResult(g, n) ==
    [gen |-> g, out |-> full(n, g.setpoint), raised |-> FALSE, branch |-> "steady"]

\* lines 372-375: a whole block of ramp, current advanced by the block's change.
RampResult_awayFromSetpoint(g, n) ==
    [gen |-> [g EXCEPT !.current = g.current - current_change(g, n)],
     out |-> linspace(g.current, g.current - current_change(g, n), n),
     raised |-> FALSE, branch |-> "ramp"]

RampResult(g, n) ==
    [gen |-> [g EXCEPT !.current = g.current + current_change(g, n)],
     out |-> linspace(g.current, g.current + current_change(g, n), n),
     raised |-> FALSE, branch |-> "ramp"]

\* lines 380-381: the AssertionError leaves the generator as it was.
AssertResult(g, n) ==
    [gen |-> g, out |-> <<>>, raised |-> TRUE, branch |-> "assert"]

\* lines 382-385 and 388: the rest of the ramp, then the setpoint.
TransitionBlock_onePointMore(g, n) ==
    linspace(g.current, g.current + change_until_steady_state(g),
             samples_until_steady_state(g) + 1)
    \o full(n - samples_until_steady_state(g), g.setpoint)

TransitionBlock(g, n) ==
    linspace(g.current, g.current + change_until_steady_state(g),
             samples_until_steady_state(g))
    \o full(n - samples_until_steady_state(g), g.setpoint)

\* lines 382-388
TransitionResult(g, n) ==
    [gen |-> [g EXCEPT !.steady_state = TRUE, !.current = g.setpoint],
     out |-> TransitionBlock(g, n), raised |-> FALSE, branch |-> "transition"]

\* next(n): the generator afterwards, the block returned, and whether it raised.
next(g, n) ==
    IF g.steady_state THEN SteadyResult(g, n)
    ELSE IF StillRamping(g, n) THEN RampResult(g, n)
    ELSE IF ~AssertHolds(g, n) THEN AssertResult(g, n)
    ELSE TransitionResult(g, n)

\* No next(n) in progress.
NoLocals == [change |-> 0, samples |-> 0, section |-> <<>>, value |-> 0]

\* No constructor call in progress.
NoCtor ==
    ctor = [class |-> "none", Fs |-> 0, A_L |-> 0, A_R |-> 0, volume_mode |-> "none",
            pc |-> "none", generators |-> 0, pa_obj |-> FALSE, stream |-> FALSE,
            error |-> "none"]

\* No stimulus under adjustment.
NoAdj ==
    adj = [stim |-> [A |-> 0, f |-> 0], pre |-> [A |-> 0, f |-> 0], op |-> "none",
           kwargs |-> <<>>, raised |-> FALSE, spawned |-> FALSE]

\* No MethodOfAdjustment.
NoMoA ==
    /\ moa = [selectedTest |-> "none", testInProgress |-> FALSE, value |-> 0, log |-> <<>>,
              parameterList |-> {}, parameterSearchPrecision |-> 0,
              op |-> "none", returned |-> FALSE,
              user |-> EnvelopeGenerator(0, HalfFs), user_log |-> <<>>, logs |-> <<>>,
              testResults |-> [independent |-> <<>>, dependent |-> <<>>],
              raised |-> "none", ticks |-> 0, intent |-> 0,
              ramping |-> FALSE, adjusts |-> 0, discarded |-> FALSE,
              stream |-> "none", pa_flag |-> "unset", others |-> 0,
              resumed |-> FALSE, replaced |-> "none"]
    /\ issued = <<>>

\* No slider.
NoSlider ==
    slider = [minimum |-> 0, maximum |-> 0, precision |-> 0, pagePrecision |-> 0,
              op |-> "none", raised |-> "none"]

\* No tone whose parameters are assigned.
NoStimulus ==
    tone = [class |-> "none", generators |-> <<>>, theta |-> <<>>, frame |-> 0,
            pa_flag |-> "unset", duration |-> [inf |-> TRUE, s |-> 0], active |-> FALSE,
            op |-> "none", parameter |-> "none", value |-> 0, assigned |-> 0,
            data |-> <<>>]

\* The control thread may assign again.
NoQuiet == quiet = [ceased |-> FALSE, n |-> 0]

NoRest == NoSlider /\ NoStimulus /\ NoQuiet

NoOther == NoCtor /\ NoAdj /\ NoMoA /\ NoRest

\* No tone: the variables of PureToneMono while a lone generator is exercised.
NoTone ==
    /\ gen_f = EnvelopeGenerator(0, HalfFs)
    /\ gen_A = EnvelopeGenerator(0, MaxRate)
    /\ theta = 0
    /\ frame = 0
    /\ pa_flag = "unset"
    /\ stream = "closed"
    /\ duration = [inf |-> TRUE, s |-> 0]
    /\ data = <<>>
    /\ tone_op = "control"
    /\ frame_count = 0
    /\ theta_in = 0
    /\ theta0 = 0
    /\ f_const = FALSE
    /\ a_const = FALSE
    /\ cb_raised = FALSE
    /\ ctl = "idle"
    /\ late = 0

\* -------------------------------------------- sequential use of a generator
InitEnv ==
    /\ NoTone
    /\ NoOther
    /\ \E sp \in SetpointValues, r \in Rates : env = EnvelopeGenerator(sp, r)
    /\ envelope = <<>>
    /\ raised = FALSE
    /\ branch = "none"
    /\ n_arg = 0
    /\ pre = env
    /\ last_op = "init"
    /\ last_out = env.setpoint
    /\ start_val = env.current
    /\ changes = 0
    /\ pc = "idle"
    /\ cpc = "idle"
    /\ loc = NoLocals
    /\ targets = {}

\* The value emitted last so far.
LastEmitted == IF envelope = <<>> THEN last_out ELSE envelope[Len(envelope)]

\* env.setpoint = value, between two blocks.
SetSetpoint(value) ==
    /\ env' = set(env, value)
    /\ pre' = env
    /\ last_op' = "set"
    /\ changes' = IF env.steady_state THEN 1 ELSE 2
    /\ start_val' = IF env.steady_state THEN env.current ELSE start_val
    /\ envelope' = <<>>
    /\ raised' = FALSE
    /\ branch' = "none"
    /\ n_arg' = 0
    /\ last_out' = LastEmitted
    /\ UNCHANGED <<threadVars, toneVars, otherVars>>

\* arr = env.next(n)
Next_n(n) ==
    LET r == next(env, n) IN
    /\ env' = r.gen
    /\ envelope' = r.out
    /\ raised' = r.raised
    /\ branch' = r.branch
    /\ n_arg' = n
    /\ pre' = env
    /\ last_op' = "next"
    /\ last_out' = LastEmitted
    /\ UNCHANGED <<start_val, changes, threadVars, toneVars, otherVars>>

NextEnv ==
    \/ \E value \in SetpointValues : SetSetpoint(value)
    \/ \E n \in BlockSizes : Next_n(n)

SpecEnv == InitEnv /\ [][NextEnv]_vars

\* ------------------------- the setter interleaved with next(n) (two threads)
\* The control thread runs the setter, the audio thread runs next(n); each
\* statement that reads or writes setpoint or steady_state is a step of its own
\* (the interpreter can switch threads between any two bytecodes).
seqHistory == <<last_op, last_out, start_val, changes, toneVars, otherVars>>

InitConc ==
    /\ InitEnv
    /\ env.setpoint \in ConcSetpointValues

\* What is recorded of a next(n) is dropped at the first step taken after it returned.
Forget(g) ==
    /\ envelope' = <<>>
    /\ raised' = FALSE
    /\ branch' = "none"
    /\ n_arg' = 0
    /\ pre' = g
    /\ loc' = NoLocals
    /\ targets' = {}

\* line 340: self._setpoint = value
Setter_L340(value) ==
    /\ cpc = "idle"
    /\ pc = "idle" \/ Cardinality(targets \cup {value}) <= MaxWrites + 1
    /\ env' = [env EXCEPT !.setpoint = value]
    /\ cpc' = "L341"
    /\ IF pc = "idle"
       THEN Forget(env')
       ELSE /\ targets' = targets \cup {value}
            /\ UNCHANGED <<envelope, raised, branch, n_arg, pre, loc>>
    /\ UNCHANGED <<pc, seqHistory>>

\* line 341: self._steady_state = False
Setter_L341 ==
    /\ cpc = "L341"
    /\ env' = [env EXCEPT !.steady_state = FALSE]
    /\ cpc' = "idle"
    /\ IF pc = "idle"
       THEN Forget(env')
       ELSE UNCHANGED <<envelope, raised, branch, n_arg, pre, loc, targets>>
    /\ UNCHANGED <<pc, seqHistory>>

\* next(n) is entered; line 364 reads the steady flag.
Next_L364(n) ==
    /\ pc = "idle"
    /\ pc' = IF env.steady_state THEN "L365" ELSE "L368"
    /\ n_arg' = n
    /\ pre' = env
    /\ targets' = {env.setpoint}
    /\ loc' = NoLocals
    /\ envelope' = <<>>
    /\ raised' = FALSE
    /\ branch' = "none"
    /\ UNCHANGED <<env, cpc, seqHistory>>

\* line 365: return np.full(n, self._setpoint)
Next_L365 ==
    /\ pc = "L365"
    /\ envelope' = full(n_arg, env.setpoint)
    /\ branch' = "steady"
    /\ pc' = "idle"
    /\ UNCHANGED <<env, raised, n_arg, pre, cpc, loc, targets, seqHistory>>

\* lines 368-371: the change is read once and kept in a local.
Next_L368 ==
    /\ pc = "L368"
    /\ loc' = [loc EXCEPT !.change = change_until_steady_state(env)]
    /\ pc' = IF StillRamping(env, n_arg) THEN "L372" ELSE "L378"
    /\ UNCHANGED <<env, envelope, raised, branch, n_arg, pre, cpc, targets, seqHistory>>

\* lines 372-375: direction, rate and n are those of line 370.
Next_L372 ==
    LET cc == (sign(loc.change) * env.rate * n_arg * Grid) \div Fs IN
    /\ pc = "L372"
    /\ envelope' = linspace(env.current, env.current + cc, n_arg)
    /\ env' = [env EXCEPT !.current = env.current + cc]
    /\ branch' = "ramp"
    /\ pc' = "idle"
    /\ UNCHANGED <<raised, n_arg, pre, cpc, loc, targets, seqHistory>>

\* lines 378-383: samples from the local change, the assert, the rest of the ramp.
Next_L378 ==
    LET k == (Abs(loc.change) * Fs) \div (env.rate * Grid) IN
    /\ pc = "L378"
    /\ IF k < n_arg
       THEN /\ loc' = [loc EXCEPT !.samples = k,
                                  !.section = linspace(env.current,
                                                       env.current + loc.change, k)]
            /\ pc' = "L384"
            /\ UNCHANGED <<raised, branch>>
       ELSE /\ raised' = TRUE
            /\ branch' = "assert"
            /\ pc' = "idle"
            /\ UNCHANGED loc
    /\ UNCHANGED <<env, envelope, n_arg, pre, cpc, targets, seqHistory>>

\* lines 384-385: np.full(n - samples, self._setpoint): setpoint is read again.
Next_L384 ==
    /\ pc = "L384"
    /\ loc' = [loc EXCEPT !.section = loc.section \o full(n_arg - loc.samples, env.setpoint)]
    /\ pc' = "L386"
    /\ UNCHANGED <<env, envelope, raised, branch, n_arg, pre, cpc, targets, seqHistory>>

\* line 386: self._steady_state = True
Next_L386 ==
    /\ pc = "L386"
    /\ env' = [env EXCEPT !.steady_state = TRUE]
    /\ pc' = "L387"
    /\ UNCHANGED <<envelope, raised, branch, n_arg, pre, cpc, loc, targets, seqHistory>>

\* line 387, the load: self._setpoint is read a third time.
Next_L387_load ==
    /\ pc = "L387"
    /\ loc' = [loc EXCEPT !.value = env.setpoint]
    /\ pc' = "L387s"
    /\ UNCHANGED <<env, envelope, raised, branch, n_arg, pre, cpc, targets, seqHistory>>

\* line 387, the store into self._current; line 388 returns the block.
Next_L387_store ==
    /\ pc = "L387s"
    /\ env' = [env EXCEPT !.current = loc.value]
    /\ envelope' = loc.section
    /\ branch' = "transition"
    /\ pc' = "idle"
    /\ UNCHANGED <<raised, n_arg, pre, cpc, loc, targets, seqHistory>>

NextConc ==
    \/ \E value \in ConcSetpointValues : Setter_L340(value)
    \/ Setter_L341
    \/ \E n \in BlockSizes : Next_L364(n)
    \/ Next_L365
    \/ Next_L368
    \/ Next_L372
    \/ Next_L378
    \/ Next_L384
    \/ Next_L386
    \/ Next_L387_load
    \/ Next_L387_store

SpecConc == InitConc /\ [][NextConc]_vars

\* ----------------- the two threads once the control thread stops assigning
\* The control thread has completed its last assignment; from now on the audio
\* thread calls next(n) with this n.
Cease(n) ==
    /\ ~quiet.ceased
    /\ cpc = "idle"
    /\ quiet' = [ceased |-> TRUE, n |-> n]
    /\ UNCHANGED <<envVars, threadVars, toneVars, ctor, adj, moa, issued, slider, tone>>

\* The statements of next(n), called with any n at first and with the fixed one
\* once the assignments have ceased.
AudioStep ==
    \/ \E n \in BlockSizes : (quiet.ceased => n = quiet.n) /\ Next_L364(n)
    \/ Next_L365
    \/ Next_L368
    \/ Next_L372
    \/ Next_L378
    \/ Next_L384
    \/ Next_L386
    \/ Next_L387_load
    \/ Next_L387_store

NextLive ==
    \/ \E value \in ConcSetpointValues : ~quiet.ceased /\ Setter_L340(value)
    \/ Setter_L341
    \/ \E n \in BlockSizes : Cease(n)
    \/ AudioStep

\* The audio thread keeps being called: its next statement is always executed.
SpecLive == InitConc /\ [][NextLive]_vars /\ WF_vars(AudioStep)

\* ------------------------------------------------ PureToneMono on its stream
\* Phase is counted in units of 1 / (Grid * Fs) of a turn, so that the increment
\* 2 * pi * f * Ts of a frequency on the grid is a whole number of units.
Turn == Grid * Fs

\* Frequencies (Hz, on the grid) and amplitudes (dB, at most 0) given to the tone.
FreqValues == {LinDen * s : s \in 0 .. MaxFreq}

AmpValues == {-(LinDen * s) : s \in 0 .. 1}

Durations == {[inf |-> TRUE, s |-> 0]} \cup {[inf |-> FALSE, s |-> d] : d \in 1 .. MaxDuration}

\* The lone generator's variables while a tone is exercised.
NoEnv ==
    /\ env = EnvelopeGenerator(0, 1)
    /\ envelope = <<>>
    /\ raised = FALSE
    /\ branch = "none"
    /\ n_arg = 0
    /\ pre = env
    /\ last_op = "init"
    /\ last_out = 0
    /\ start_val = 0
    /\ changes = 0
    /\ pc = "idle"
    /\ cpc = "idle"
    /\ loc = NoLocals
    /\ targets = {}

\* PureToneMono.__init__ (lines 149-157) and Stimulus.__init__: the stream is
\* opened with start=False; _frame and pa_flag are first assigned by play().
InitTone ==
    /\ NoEnv
    /\ NoOther
    /\ \E f0 \in FreqValues : gen_f = EnvelopeGenerator(f0, HalfFs)
    /\ \E a0 \in AmpValues : gen_A = EnvelopeGenerator(a0, MaxRate)
    /\ theta = 0
    /\ frame = 0
    /\ pa_flag = "unset"
    /\ stream = "stopped"
    /\ duration \in Durations
    /\ data = <<>>
    /\ tone_op = "control"
    /\ frame_count = 0
    /\ theta_in = 0
    /\ theta0 = 0
    /\ f_const = FALSE
    /\ a_const = FALSE
    /\ cb_raised = FALSE
    /\ ctl = "idle"
    /\ late = 0

\* The frame index the last callback's buffer began at: time[0] / Ts.
time0 == frame - frame_count

\* What is recorded of the last callback is dropped by the next control operation.
ForgetBuffer ==
    /\ data' = <<>>
    /\ frame_count' = 0
    /\ theta_in' = 0
    /\ cb_raised' = FALSE

\* What is recorded of the last play() is dropped once the stream has been stopped.
ForgetPlay ==
    /\ theta0' = 0
    /\ f_const' = FALSE
    /\ a_const' = FALSE

\* line 82: time[0] > duration, with time[0] = start * Ts.
Complete_fromExactEnd(start, d) == ~d.inf /\ start >= d.s * Fs

Complete(start, d) == ~d.inf /\ start > d.s * Fs

\* np.cumsum
RECURSIVE cumsum(_)
cumsum(a) ==
    IF a = <<>> THEN <<>>
    ELSE LET head == cumsum(SubSeq(a, 1, Len(a) - 1))
         IN Append(head, (IF head = <<>> THEN 0 ELSE head[Len(head)]) + a[Len(a)])

\* (2 * pi * f) * Ts for a frequency v on the grid, in phase units.
PhaseIncrement(v) == (v * Turn) \div (Grid * Fs)

\* line 165: np.cumsum((2 * np.pi * f_arr) * self._Ts) + self._theta
theta_accum_noCarry(f_arr, th) ==
    cumsum([i \in 1 .. Len(f_arr) |-> PhaseIncrement(f_arr[i])])

theta_accum(f_arr, th) ==
    LET c == cumsum([i \in 1 .. Len(f_arr) |-> PhaseIncrement(f_arr[i])])
    IN [i \in 1 .. Len(c) |-> c[i] + th]

\* lines 167-170: amplitude (as given, linear or dB) times sin(phase); a sample
\* is kept as its amplitude value and its phase within the turn.
Samples(A_arr, acc) == [i \in 1 .. Len(acc) |-> <<A_arr[i], acc[i] % Turn>>]

\* PortAudio calls the callback of an active stream (stream_callback, line 62)
\* unless the callback returned paComplete; once stop_stream() has been entered
\* it requests no buffer more, and only a callback then in progress still ends.
CallbackDue_ignoresStop ==
    /\ stream \in {"active", "stopped"}
    /\ pa_flag # "paComplete"

CallbackDue ==
    /\ stream = "active"
    /\ pa_flag # "paComplete"
    /\ (ctl = "idle" \/ late = 0)

\* Stimulus.callback and PureToneMono.callback.  An exception in the callback
\* aborts the stream.
Callback(n) ==
    LET start == frame
        flag == IF Complete(start, duration) THEN "paComplete" ELSE pa_flag
        rf == next(gen_f, n)
        rA == next(gen_A, n)
        acc == theta_accum(rf.out, theta)
    IN
    /\ CallbackDue
    /\ frame + n <= MaxFrames
    /\ late' = IF ctl = "idle" THEN 0 ELSE late + 1
    /\ frame' = frame + n
    /\ pa_flag' = flag
    /\ frame_count' = n
    /\ theta_in' = theta
    /\ tone_op' = "callback"
    /\ gen_f' = rf.gen
    /\ gen_A' = IF rf.raised THEN gen_A ELSE rA.gen
    /\ cb_raised' = (rf.raised \/ rA.raised)
    /\ IF rf.raised \/ rA.raised
       THEN /\ theta' = theta
            /\ data' = <<>>
            /\ stream' = "finished"
       ELSE /\ theta' = acc[n] % Turn
            /\ data' = Samples(rA.out, acc)
            /\ stream' = "active"
    /\ UNCHANGED <<duration, theta0, f_const, a_const, ctl, envVars, threadVars, otherVars>>

\* PortAudio: after a callback returned paComplete the stream calls it no more,
\* plays out what is buffered (still active) and then is neither active nor stopped.
Finish ==
    /\ stream = "active"
    /\ pa_flag = "paComplete"
    /\ ctl = "idle"
    /\ stream' = "finished"
    /\ UNCHANGED <<gen_f, gen_A, theta, frame, pa_flag, duration, data, tone_op,
                   frame_count, theta_in, theta0, f_const, a_const, cb_raised,
                   ctl, late, envVars, threadVars, otherVars>>

\* Stimulus.play, lines 93-94: nothing to do when already playing.
Play_active_restarts ==
    /\ ctl = "idle"
    /\ stream = "active"
    /\ frame' = 0
    /\ tone_op' = "play"
    /\ late' = 0
    /\ ForgetBuffer
    /\ UNCHANGED <<gen_f, gen_A, theta, pa_flag, stream, duration, theta0, f_const, a_const,
                   ctl, envVars, threadVars, otherVars>>

Play_active ==
    /\ ctl = "idle"
    /\ stream = "active"
    /\ tone_op' = "play"
    /\ late' = 0
    /\ ForgetBuffer
    /\ UNCHANGED <<gen_f, gen_A, theta, frame, pa_flag, stream, duration, theta0, f_const, a_const,
                   ctl, envVars, threadVars, otherVars>>

\* Stimulus.play, lines 97-103.
Play_start_fromClosed ==
    /\ ctl = "idle"
    /\ stream \in {"stopped", "finished", "closed"}
    /\ frame' = 0
    /\ pa_flag' = "paContinue"
    /\ stream' = "active"
    /\ tone_op' = "play"
    /\ late' = 0
    /\ theta0' = IF gen_f.steady_state THEN theta ELSE 0
    /\ f_const' = gen_f.steady_state
    /\ a_const' = gen_A.steady_state
    /\ ForgetBuffer
    /\ UNCHANGED <<gen_f, gen_A, theta, duration, ctl, envVars, threadVars, otherVars>>

Play_start ==
    /\ ctl = "idle"
    /\ stream \in {"stopped", "finished"}
    /\ frame' = 0
    /\ pa_flag' = "paContinue"
    /\ stream' = "active"
    /\ tone_op' = "play"
    /\ late' = 0
    /\ theta0' = IF gen_f.steady_state THEN theta ELSE 0
    /\ f_const' = gen_f.steady_state
    /\ a_const' = gen_A.steady_state
    /\ ForgetBuffer
    /\ UNCHANGED <<gen_f, gen_A, theta, duration, ctl, envVars, threadVars, otherVars>>

\* Stimulus.play on the closed stream: is_active() (line 93) raises IOError.
Play_closed ==
    /\ ctl = "idle"
    /\ stream = "closed"
    /\ tone_op' = "error"
    /\ UNCHANGED <<gen_f, gen_A, theta, frame, pa_flag, stream, duration, data,
                   frame_count, theta_in, theta0, f_const, a_const, cb_raised,
                   ctl, late, envVars, threadVars, otherVars>>

\* Stimulus.stop on a stream that is not active.
Stop_resetsFlag ==
    /\ ctl = "idle"
    /\ stream \notin {"active", "closed"}
    /\ stream' = "stopped"
    /\ pa_flag' = "paContinue"
    /\ tone_op' = "control"
    /\ late' = 0
    /\ ForgetBuffer
    /\ ForgetPlay
    /\ UNCHANGED <<gen_f, gen_A, theta, frame, duration,
                   ctl, envVars, threadVars, otherVars>>

Stop ==
    /\ ctl = "idle"
    /\ stream \notin {"active", "closed"}
    /\ stream' = "stopped"
    /\ tone_op' = "control"
    /\ late' = 0
    /\ ForgetBuffer
    /\ ForgetPlay
    /\ UNCHANGED <<gen_f, gen_A, theta, frame, pa_flag, duration,
                   ctl, envVars, threadVars, otherVars>>

\* Stimulus.stop on the active stream: stop_stream() is entered and waits for
\* the callback in progress, if there is one.
Stop_call ==
    /\ ctl = "idle"
    /\ stream = "active"
    /\ ctl' = "in_stop"
    /\ tone_op' = "control"
    /\ late' = 0
    /\ ForgetBuffer
    /\ UNCHANGED <<gen_f, gen_A, theta, frame, pa_flag, stream, duration, theta0, f_const, a_const,
                   envVars, threadVars, otherVars>>

\* stop_stream() returns to Stimulus.stop, which returns.
Stop_return ==
    /\ ctl = "in_stop"
    /\ ctl' = "idle"
    /\ stream' = "stopped"
    /\ tone_op' = "control"
    /\ ForgetBuffer
    /\ ForgetPlay
    /\ UNCHANGED <<gen_f, gen_A, theta, frame, pa_flag, duration,
                   late, envVars, threadVars, otherVars>>

\* Stimulus.stop on the closed stream: stop_stream() raises IOError.
Stop_closed ==
    /\ ctl = "idle"
    /\ stream = "closed"
    /\ tone_op' = "error"
    /\ UNCHANGED <<gen_f, gen_A, theta, frame, pa_flag, stream, duration, data,
                   frame_count, theta_in, theta0, f_const, a_const, cb_raised,
                   ctl, late, envVars, threadVars, otherVars>>

\* Stimulus.done on a stream that is not active: stop_stream(), close(), terminate().
Done ==
    /\ ctl = "idle"
    /\ stream \notin {"active", "closed"}
    /\ stream' = "closed"
    /\ tone_op' = "control"
    /\ late' = 0
    /\ ForgetBuffer
    /\ ForgetPlay
    /\ UNCHANGED <<gen_f, gen_A, theta, frame, pa_flag, duration,
                   ctl, envVars, threadVars, otherVars>>

\* Stimulus.done on the active stream: stop_stream() (line 122) is entered and
\* waits for the callback in progress, if there is one.
Done_call ==
    /\ ctl = "idle"
    /\ stream = "active"
    /\ ctl' = "in_done"
    /\ tone_op' = "control"
    /\ late' = 0
    /\ ForgetBuffer
    /\ UNCHANGED <<gen_f, gen_A, theta, frame, pa_flag, stream, duration, theta0, f_const, a_const,
                   envVars, threadVars, otherVars>>

\* stop_stream() returns; close() and terminate() (lines 123-124).
Done_return ==
    /\ ctl = "in_done"
    /\ ctl' = "idle"
    /\ stream' = "closed"
    /\ tone_op' = "control"
    /\ ForgetBuffer
    /\ ForgetPlay
    /\ UNCHANGED <<gen_f, gen_A, theta, frame, pa_flag, duration,
                   late, envVars, threadVars, otherVars>>

\* Stimulus.done on the closed stream: stop_stream() (line 122) raises IOError.
Done_closed ==
    /\ ctl = "idle"
    /\ stream = "closed"
    /\ tone_op' = "error"
    /\ UNCHANGED <<gen_f, gen_A, theta, frame, pa_flag, stream, duration, data,
                   frame_count, theta_in, theta0, f_const, a_const, cb_raised,
                   ctl, late, envVars, threadVars, otherVars>>

\* PureToneMono.f (setter)
SetF(value) ==
    /\ ctl = "idle"
    /\ stream # "closed"
    /\ gen_f' = set(gen_f, value)
    /\ f_const' = FALSE
    /\ theta0' = 0
    /\ tone_op' = "control"
    /\ late' = 0
    /\ ForgetBuffer
    /\ UNCHANGED <<gen_A, theta, frame, pa_flag, stream, duration, a_const,
                   ctl, envVars, threadVars, otherVars>>

\* PureToneMono.A (setter)
SetA(value) ==
    /\ ctl = "idle"
    /\ stream # "closed"
    /\ gen_A' = set(gen_A, value)
    /\ a_const' = FALSE
    /\ tone_op' = "control"
    /\ late' = 0
    /\ ForgetBuffer
    /\ UNCHANGED <<gen_f, theta, frame, pa_flag, stream, duration, theta0, f_const,
                   ctl, envVars, threadVars, otherVars>>

NextTone ==
    \/ \E n \in BlockSizes : Callback(n)
    \/ Finish
    \/ Play_active
    \/ Play_start
    \/ Play_closed
    \/ Stop
    \/ Stop_call
    \/ Stop_return
    \/ Stop_closed
    \/ Done
    \/ Done_call
    \/ Done_return
    \/ Done_closed
    \/ \E value \in FreqValues : SetF(value)
    \/ \E value \in AmpValues : SetA(value)

SpecTone == InitTone /\ [][NextTone]_vars

\* ------------------------------------------------------------ construction
\* supported_sample_rates (stimulus.py line 47, stimuli.py line 39)
supported_sample_rates == {44100, 48000}

\* The Fs a caller passes: the supported rates and some others.
SampleRateInputs == supported_sample_rates \cup {0, 22050, 96000}

AmplitudeInputs == (-1) .. MaxAmp

\* The tones of stimulus.py validate volume_mode and the amplitudes; the tones
\* of pure_tone.py (on stimuli.py) have neither a volume mode nor a check.
NewTones == {"stimulus.PureToneMono", "stimulus.PureToneStereo"}

OldTones == {"pure_tone.PureToneMono", "pure_tone.PureToneStereo"}

Stereo(c) == c.class \in {"stimulus.PureToneStereo", "pure_tone.PureToneStereo"}

\* The call Class(Fs=..., A=... / A_L=..., A_R=..., volume_mode=...), about to
\* execute the first statement of __init__.
CtorCall(class, rate, aL, aR, mode) ==
    [class |-> class, Fs |-> rate, A_L |-> aL, A_R |-> aR, volume_mode |-> mode,
     pc |-> IF class \in NewTones THEN "validate" ELSE "fields",
     generators |-> 0, pa_obj |-> FALSE, stream |-> FALSE, error |-> "none"]

InitCtor ==
    /\ NoRest
    /\ NoEnv
    /\ NoTone
    /\ NoAdj
    /\ NoMoA
    /\ \E class \in NewTones \cup OldTones, rate \in SampleRateInputs,
          aL \in AmplitudeInputs, aR \in AmplitudeInputs,
          mode \in {"LINEAR", "DB", "other"} :
          /\ class \in OldTones => mode = "other"
          /\ class \in {"stimulus.PureToneMono", "pure_tone.PureToneMono"} => aR = aL
          /\ ctor = CtorCall(class, rate, aL, aR, mode)

\* stimulus.py lines 141 and 145 (201 and 205): the conditions of the two raises.
AmplitudeRejected_leftOnly(c) ==
    \/ c.volume_mode = "LINEAR" /\ c.A_L > 1
    \/ c.volume_mode = "DB" /\ c.A_L > 0

AmplitudeRejected(c) ==
    \/ c.volume_mode = "LINEAR" /\ (c.A_L > 1 \/ (Stereo(c) /\ c.A_R > 1))
    \/ c.volume_mode = "DB" /\ (c.A_L > 0 \/ (Stereo(c) /\ c.A_R > 0))

\* PureToneMono.__init__ lines 137-147, PureToneStereo.__init__ lines 197-207.
Validate ==
    /\ ctor.pc = "validate"
    /\ ctor' = IF ctor.volume_mode \notin {"LINEAR", "DB"} \/ AmplitudeRejected(ctor)
               THEN [ctor EXCEPT !.pc = "raised", !.error = "ValueError"]
               ELSE [ctor EXCEPT !.pc = "fields"]
    /\ UNCHANGED <<envVars, threadVars, toneVars, adj, moa, issued, slider, tone, quiet>>

\* Lines 149-156 (209-219): 1/Fs, then the generators, two a channel; the tones
\* of pure_tone.py (lines 9-15, 29-38) keep plain numbers.
Fields ==
    /\ ctor.pc = "fields"
    /\ ctor' = IF ctor.class \in OldTones
               THEN [ctor EXCEPT !.pc = "check_Fs"]
               ELSE IF ctor.Fs = 0
               THEN [ctor EXCEPT !.pc = "raised", !.error = "ZeroDivisionError"]
               ELSE [ctor EXCEPT !.pc = "check_Fs",
                                 !.generators = IF Stereo(ctor) THEN 4 ELSE 2]
    /\ UNCHANGED <<envVars, threadVars, toneVars, adj, moa, issued, slider, tone, quiet>>

\* Stimulus.__init__ lines 46-51: raise ValueError; Stimuli.__init__ lines 39-42:
\* assert.
CheckFs_acceptsAll ==
    /\ ctor.pc = "check_Fs"
    /\ ctor' = [ctor EXCEPT !.pc = "PyAudio"]
    /\ UNCHANGED <<envVars, threadVars, toneVars, adj, moa, issued, slider, tone, quiet>>

CheckFs ==
    /\ ctor.pc = "check_Fs"
    /\ ctor' = IF ctor.Fs \in supported_sample_rates
               THEN [ctor EXCEPT !.pc = "PyAudio"]
               ELSE [ctor EXCEPT !.pc = "raised",
                                 !.error = IF ctor.class \in OldTones
                                           THEN "AssertionError" ELSE "ValueError"]
    /\ UNCHANGED <<envVars, threadVars, toneVars, adj, moa, issued, slider, tone, quiet>>

\* line 57: self._pa_obj = pyaudio.PyAudio()
CreatePyAudio ==
    /\ ctor.pc = "PyAudio"
    /\ ctor' = [ctor EXCEPT !.pc = "open", !.pa_obj = TRUE]
    /\ UNCHANGED <<envVars, threadVars, toneVars, adj, moa, issued, slider, tone, quiet>>

\* lines 58-64: self._stream = self._pa_obj.open(..., start=False, ...)
OpenStream ==
    /\ ctor.pc = "open"
    /\ ctor' = [ctor EXCEPT !.pc = "done", !.stream = TRUE]
    /\ UNCHANGED <<envVars, threadVars, toneVars, adj, moa, issued, slider, tone, quiet>>

NextCtor ==
    \/ Validate
    \/ Fields
    \/ CheckFs
    \/ CreatePyAudio
    \/ OpenStream

SpecCtor == InitCtor /\ [][NextCtor]_vars

\* ------------------------------------------------------------- adjustment
\* stimulus.parameters of a PureToneMono that are modelled (stimulus.py lines
\* 39-44 and 159), and a name that is not among them.
parameters == {"A", "f"}

KeywordNames == parameters \cup {"gain"}

AdjustValues == 0 .. MaxAdj

\* The keyword arguments of one call, in the order given: distinct names.
KwargsInputs ==
    {kw \in UNION {[1 .. k -> KeywordNames \X AdjustValues] : k \in 1 .. MaxKwargs} :
        \A i, j \in 1 .. Len(kw) : kw[i][1] = kw[j][1] => i = j}

InitAdjust ==
    /\ NoRest
    /\ NoEnv
    /\ NoTone
    /\ NoCtor
    /\ NoAdj
    /\ NoMoA

\* setattr(self.stimulus, key, value): the property setter assigns the setpoint.
\* (Only names of parameters get here.)
setattr(stim, key, value) == [stim EXCEPT ![key] = value]

\* The loop of adjust_stimulus over kwargs[i ..], from stimulus stim: the
\* stimulus it leaves and whether it raised.
RECURSIVE adjust_loop(_, _, _)
adjust_loop(stim, kw, i) ==
    IF i > Len(kw) THEN [stim |-> stim, raised |-> FALSE]
    ELSE IF kw[i][1] \notin parameters THEN [stim |-> stim, raised |-> TRUE]
    ELSE adjust_loop(setattr(stim, kw[i][1], kw[i][2]), kw, i + 1)

\* pa_methods.py, PaMethods.adjust_stimulus(**kwargs).  The message of the
\* failing assert calls self.stimulus.__class__(): one more stimulus is built.
adjust_stimulus(kwargs) ==
    LET r == adjust_loop(adj.stim, kwargs, 1) IN
    adj' = [stim |-> r.stim, pre |-> adj.stim, op |-> "adjust_stimulus",
            kwargs |-> kwargs, raised |-> r.raised, spawned |-> r.raised]

\* PaMethods.py, PaMethods.adjustStimulus(value), with userStimulus['parameter']
\* as _configureHearingThresholdTest sets it (line 278): 'A'.
adjustStimulus(value) ==
    adj' = [stim |-> setattr(adj.stim, "A", value), pre |-> adj.stim,
            op |-> "adjustStimulus", kwargs |-> <<<<"A", value>>>>,
            raised |-> FALSE, spawned |-> FALSE]

NextAdjust ==
    \/ \E kwargs \in KwargsInputs :
          adjust_stimulus(kwargs) /\ UNCHANGED <<envVars, threadVars, toneVars, ctor, moa, issued, slider, tone, quiet>>
    \/ \E value \in AdjustValues :
          adjustStimulus(value) /\ UNCHANGED <<envVars, threadVars, toneVars, ctor, moa, issued, slider, tone, quiet>>

SpecAdjust == InitAdjust /\ [][NextAdjust]_vars

\* ------------------------------------------------- method of adjustment
\* 2 ^ k
RECURSIVE Pow2(_)
Pow2(k) == IF k = 0 THEN 1 ELSE 2 * Pow2(k - 1)

\* testStimulus['parameterSearchPrecision'] as the tests are configured (1000 in
\* the program), in units that leave every halving within MaxTicks ticks whole.
InitialPrecision == Pow2(MaxTicks)

\* testStimulus['default'] (1000 in the program: the initial precision).
TestDefault == InitialPrecision

\* testStimulus['min'] (100 in the program, a tenth of the initial precision, which
\* the fourth halving takes the precision below; here three sixteenths of it, which
\* the third halving does).
TestMin == (3 * InitialPrecision) \div 16

tests == {"Hearing Threshold", "Tone Match", "Octave Match"}

\* testStimulus['max']: 15000, 15000 and, for the octave match, 7500.
TestMax(test) ==
    IF test = "Octave Match" THEN (DomainMult * InitialPrecision) \div 2
    ELSE DomainMult * InitialPrecision

\* testStimulus['parameter'] and userStimulus['parameter'] of each test.
TestParameter(test) == IF test = "Hearing Threshold" THEN "f" ELSE "f_L"

UserParameter(test) == IF test = "Hearing Threshold" THEN "A" ELSE "f_R"

\* stimulus.parameters: the public attributes the tone adds to Stimulus, without
\* Fs and num_channels and, for PureToneMono, without volume_mode.
StimulusParameters(test) ==
    IF test = "Hearing Threshold" THEN {"A", "f", "duration"}
    ELSE {"A_L", "f_L", "A_R", "f_R", "duration", "volume_mode"}

\* The parameters neither the test nor the user drives, as _setStimulus constructs
\* them: the amplitudes are envelope generators set to -40, duration is np.inf.
Constructed(test) ==
    [p \in StimulusParameters(test) \ {TestParameter(test), UserParameter(test)} |->
        IF p = "duration" THEN "inf" ELSE IF p = "volume_mode" THEN "DB" ELSE -40]

\* userStimulus['default'], and the values the slider hands to adjustStimulus.
UserDefault == 0

UserValues == {UserDefault, UserDefault + MaxN * LinDen}

\* The user parameter as the tone's constructor leaves it: A = -40, the default of
\* the hearing threshold; f_R = 1e3, where the matches' default is 100.
UserConstructed(test) ==
    IF test = "Hearing Threshold" THEN UserDefault ELSE UserDefault + MaxN * LinDen

\* Stimulus.__init__(frames_per_buffer=1024): the frame_count of every callback.
frames_per_buffer == MaxN - 1

\* The rate of the user parameter's generator: 200 for an amplitude, Fs/2 for a
\* frequency.
UserRate(test) == IF test = "Hearing Threshold" THEN MaxRate ELSE HalfFs

Range(q) == {q[i] : i \in 1 .. Len(q)}

\* np.arange(start, stop, step) for whole start, stop and step > 0, as a set.
arange_inclusive(start, stop, step) ==
    {start + k * step : k \in 0 .. ((stop - start) \div step)}

arange(start, stop, step) ==
    {start + k * step : k \in 0 .. ((stop - start + step - 1) \div step) - 1}

\* _logStimulus, for the test parameter: its setpoint is appended to its log.
logStimulus_dropsValue(log, value) == log

logStimulus(log, value) == Append(log, value)

\* _logStimulus line 205-206: of an envelope generator the setpoint is logged.
parameterData_current(g) == g.current

parameterData(g) == g.setpoint

\* _logStimulus over the parameters neither the test nor the user drives.
logConstructed_skipsDuration(logs, test) ==
    [p \in DOMAIN logs |->
        IF p = "duration" THEN logs[p] ELSE Append(logs[p], Constructed(test)[p])]

logConstructed(logs, test) ==
    [p \in DOMAIN logs |-> Append(logs[p], Constructed(test)[p])]

\* The update methods of the three tests, lines 403-433: the hearing threshold
\* takes the two logs; the matches take the test log and log2 of a quotient, kept
\* here as the pair <<numerator, denominator>>.
Quotients(user_log, log, k) ==
    [i \in 1 .. Len(log) |-> <<user_log[i], k * log[i]>>]

TestResults(test, log, user_log) ==
    [independent |-> log,
     dependent |-> IF test = "Hearing Threshold" THEN user_log
                   ELSE IF test = "Tone Match" THEN Quotients(user_log, log, 1)
                   ELSE Quotients(user_log, log, 2)]

\* _updateTestStimulus lines 444-455: the pool without the used values, and, when
\* that is empty, the precision halved and the pool made anew, again filtered.
NextPool_unfilteredRegeneration(pool, precision, max, used) ==
    LET filtered == pool \ used IN
    IF filtered = {}
    THEN [parameterSearchPrecision |-> precision \div 2,
          parameterList |-> arange(precision \div 2, max, precision \div 2)]
    ELSE [parameterSearchPrecision |-> precision, parameterList |-> filtered]

NextPool_regeneratesSameGrid(pool, precision, max, used) ==
    LET filtered == pool \ used IN
    IF filtered = {}
    THEN [parameterSearchPrecision |-> precision \div 2,
          parameterList |-> arange(precision, max, precision) \ used]
    ELSE [parameterSearchPrecision |-> precision, parameterList |-> filtered]

NextPool(pool, precision, max, used) ==
    LET filtered == pool \ used IN
    IF filtered = {}
    THEN [parameterSearchPrecision |-> precision \div 2,
          parameterList |-> arange(precision \div 2, max, precision \div 2) \ used]
    ELSE [parameterSearchPrecision |-> precision, parameterList |-> filtered]

\* _resetStimulusLogs: every attribute with '_log' in its name but _logStimulus is
\* deleted, and an empty log is made for each parameter of the new stimulus.
resetStimulusLogs_keepsOld(old, test) ==
    [p \in DOMAIN old \cup DOMAIN Constructed(test) |->
        IF p \in DOMAIN old THEN old[p] ELSE <<>>]

resetStimulusLogs(old, test) == [p \in DOMAIN Constructed(test) |-> <<>>]

\* selectTest(test) for a test of self.tests: a new stimulus, _configureTest
\* (the pool, the precision, both parameters set to their defaults, no results),
\* new logs in place of the old ones.
Selected(test, old) ==
    [selectedTest |-> test, testInProgress |-> FALSE, value |-> TestDefault, log |-> <<>>,
     parameterList |-> arange(InitialPrecision, TestMax(test), InitialPrecision),
     parameterSearchPrecision |-> InitialPrecision,
     op |-> "selectTest", returned |-> FALSE,
     user |-> set(EnvelopeGenerator(UserConstructed(test), UserRate(test)), UserDefault),
     user_log |-> <<>>,
     logs |-> resetStimulusLogs(old, test),
     testResults |-> [independent |-> <<>>, dependent |-> <<>>],
     raised |-> "none", ticks |-> 0, intent |-> UserDefault,
     ramping |-> FALSE, adjusts |-> 0,
     discarded |-> \E p \in DOMAIN old : Len(old[p]) > 0,
     stream |-> "stopped", pa_flag |-> "unset", others |-> 0,
     resumed |-> FALSE, replaced |-> "none"]

\* MethodOfAdjustment.__init__: self.selectTest(test), no log before it.
InitMoA ==
    /\ NoRest
    /\ NoEnv
    /\ NoTone
    /\ NoCtor
    /\ NoAdj
    /\ \E test \in tests : moa = Selected(test, <<>>)
    /\ issued = <<TestDefault>>

\* Stimulus.play on the stimulus of the session: nothing when the stream is
\* active (lines 93-94); else pa_flag = paContinue and the stream is started,
\* after stop_stream() when it was neither active nor stopped.  The _frame
\* counter that play() zeroes is not followed here: the stimuli of the session
\* have duration np.inf, so line 82 never holds whatever _frame is.
play_anew(m) ==
    [m EXCEPT !.pa_flag = "paContinue", !.stream = "active",
              !.user = set(EnvelopeGenerator(UserDefault, m.user.rate), UserDefault)]

play(m) ==
    IF m.stream = "active" THEN m
    ELSE [m EXCEPT !.pa_flag = "paContinue", !.stream = "active"]

\* Stimulus.stop: stop_stream().
stop(m) == [m EXCEPT !.stream = "stopped"]

\* selectTest lines 161-164: done() on the stimulus the object has (stop_stream(),
\* close(), terminate()); at construction there is none and the AttributeError is
\* passed over.
Discard_withoutDone(st) == st

Discard(st) == IF st = "none" THEN "none" ELSE "closed"

\* The streams of the object that it references no more and that are still open,
\* once _setStimulus has put a new stimulus in the place of the one discarded.
Unreferenced(others, discarded) ==
    others + (IF discarded \in {"none", "closed"} THEN 0 ELSE 1)

\* play() starts a stream that has played before and was stopped.
Resumes(m) == m.stream = "stopped" /\ m.pa_flag # "unset"

\* The names given to selectTest that are not in self.tests.
InvalidTests == {"Loudness Match"}

selectTest(test) ==
    /\ moa' = [Selected(test, moa.logs) EXCEPT
                   !.others = Unreferenced(moa.others, Discard(moa.stream)),
                   !.replaced = moa.stream]
    /\ issued' = <<TestDefault>>
    /\ UNCHANGED <<envVars, threadVars, toneVars, ctor, adj, slider, tone, quiet>>

\* selectTest(test) for a name that is not in self.tests: line 152 has cleared
\* _testInProgress when line 171 raises ValueError.
selectTest_invalid(test) ==
    /\ test \notin tests
    /\ moa' = [moa EXCEPT !.testInProgress = FALSE, !.op = "selectTest",
                          !.returned = FALSE, !.raised = "ValueError",
                          !.ramping = FALSE, !.discarded = FALSE,
                          !.resumed = FALSE, !.replaced = "none"]
    /\ UNCHANGED <<issued, envVars, threadVars, toneVars, ctor, adj, slider, tone, quiet>>

startTest ==
    /\ moa' = [play(moa) EXCEPT !.testInProgress = TRUE, !.op = "startTest",
                                !.returned = FALSE, !.raised = "none",
                                !.ramping = FALSE, !.discarded = FALSE,
                                !.resumed = Resumes(moa), !.replaced = "none"]
    /\ UNCHANGED <<issued, envVars, threadVars, toneVars, ctor, adj, slider, tone, quiet>>

stopTest ==
    /\ moa' = [stop(moa) EXCEPT !.testInProgress = FALSE, !.op = "stopTest",
                                !.returned = FALSE, !.raised = "none",
                                !.ramping = FALSE, !.discarded = FALSE,
                                !.resumed = FALSE, !.replaced = "none"]
    /\ UNCHANGED <<issued, envVars, threadVars, toneVars, ctor, adj, slider, tone, quiet>>

\* adjustStimulus(value) on the MethodOfAdjustment: the user parameter's setter.
moa_adjustStimulus(value) ==
    /\ moa.adjusts < MaxAdjusts
    /\ moa' = [moa EXCEPT !.user = set(@, value), !.intent = value, !.adjusts = @ + 1,
                          !.op = "adjustStimulus", !.returned = FALSE, !.raised = "none",
                          !.ramping = FALSE, !.discarded = FALSE,
                          !.resumed = FALSE, !.replaced = "none"]
    /\ UNCHANGED <<issued, envVars, threadVars, toneVars, ctor, adj, slider, tone, quiet>>

\* The callback of the stimulus while its stream is active (the duration is
\* np.inf, so pa_flag stays): as far as the user parameter goes, next(frame_count)
\* of its generator.  An AssertionError inside leaves the generator as it was and
\* aborts the stream.
moa_callback ==
    LET r == next(moa.user, frames_per_buffer) IN
    /\ moa.stream = "active"
    /\ moa' = [moa EXCEPT !.user = r.gen,
                          !.stream = IF r.raised THEN "finished" ELSE "active",
                          !.op = "callback", !.returned = FALSE, !.raised = "none",
                          !.ramping = FALSE, !.discarded = FALSE,
                          !.resumed = FALSE, !.replaced = "none"]
    /\ UNCHANGED <<issued, envVars, threadVars, toneVars, ctor, adj, slider, tone, quiet>>

\* updateData while no test is in progress: returns False.
updateData_idle_logsAnyway ==
    /\ ~moa.testInProgress
    /\ Len(moa.log) < MaxTicks
    /\ moa' = [moa EXCEPT !.log = logStimulus(@, moa.value),
                          !.user_log = Append(@, parameterData(moa.user)),
                          !.logs = logConstructed(@, moa.selectedTest),
                          !.ticks = @ + 1,
                          !.op = "updateData", !.returned = FALSE, !.raised = "none",
                          !.ramping = FALSE, !.discarded = FALSE,
                          !.resumed = FALSE, !.replaced = "none"]
    /\ UNCHANGED <<issued, envVars, threadVars, toneVars, ctor, adj, slider, tone, quiet>>

updateData_idle ==
    /\ ~moa.testInProgress
    /\ moa' = [moa EXCEPT !.op = "updateData", !.returned = FALSE, !.raised = "none",
                          !.ramping = FALSE, !.discarded = FALSE,
                          !.resumed = FALSE, !.replaced = "none"]
    /\ UNCHANGED <<issued, envVars, threadVars, toneVars, ctor, adj, slider, tone, quiet>>

\* _updateTestStimulus lines 462-464: the user parameter is set to its default.
resetUser_keepsAdjusted(g) == g

resetUser(g) == set(g, UserDefault)

\* updateData while the test is in progress: _logStimulus, then the test's update
\* method: the results, then _updateTestStimulus, where random.choice takes
\* nextTestStimuli from the pool, or raises IndexError on an empty one before
\* either parameter is set; at last the user parameter is set to its default.
updateData(nextTestStimuli) ==
    LET log == logStimulus(moa.log, moa.value)
        user_log == Append(moa.user_log, parameterData(moa.user))
        np == NextPool(moa.parameterList, moa.parameterSearchPrecision,
                       TestMax(moa.selectedTest), Range(log))
        empty == np.parameterList = {}
    IN
    /\ moa.testInProgress
    /\ Len(moa.log) < MaxTicks
    /\ IF empty THEN nextTestStimuli = 0 ELSE nextTestStimuli \in np.parameterList
    /\ moa' = [moa EXCEPT !.log = log,
                          !.user_log = user_log,
                          !.logs = logConstructed(@, moa.selectedTest),
                          !.testResults = TestResults(moa.selectedTest, log, user_log),
                          !.parameterList = np.parameterList,
                          !.parameterSearchPrecision = np.parameterSearchPrecision,
                          !.value = IF empty THEN @ ELSE nextTestStimuli,
                          !.user = IF empty THEN @ ELSE resetUser(@),
                          !.intent = IF empty THEN @ ELSE UserDefault,
                          !.ramping = (moa.user.current # moa.user.setpoint),
                          !.ticks = @ + 1,
                          !.discarded = FALSE,
                          !.op = "updateData",
                          !.returned = ~empty,
                          !.raised = IF empty THEN "IndexError" ELSE "none",
                          !.resumed = FALSE, !.replaced = "none"]
    /\ issued' = IF empty THEN issued ELSE Append(issued, nextTestStimuli)
    /\ UNCHANGED <<envVars, threadVars, toneVars, ctor, adj, slider, tone, quiet>>

\* The list random.choice is given in an update tick made now.
ChoiceList ==
    NextPool(moa.parameterList, moa.parameterSearchPrecision, TestMax(moa.selectedTest),
             Range(logStimulus(moa.log, moa.value))).parameterList

NextMoA ==
    \/ \E test \in tests : selectTest(test)
    \/ \E test \in InvalidTests : selectTest_invalid(test)
    \/ startTest
    \/ stopTest
    \/ \E value \in UserValues : moa_adjustStimulus(value)
    \/ moa_callback
    \/ updateData_idle
    \/ \E v \in ChoiceList \cup {0} : updateData(v)

SpecMoA == InitMoA /\ [][NextMoA]_vars

\* ------------------------------------------------ the parameters of a tone
ToneClasses == {"PureToneMono", "PureToneStereo"}

\* The envelope generators of a tone, in the order its callback advances them
\* (lines 163-164, 237-240).
Generators(class) ==
    IF class = "PureToneMono" THEN <<"_f", "_A">> ELSE <<"_f_L", "_A_L", "_f_R", "_A_R">>

\* The properties with a setter (lines 174-188, 257-287).
ToneParameters(class) ==
    IF class = "PureToneMono" THEN {"f", "A"} ELSE {"f_L", "A_L", "f_R", "A_R"}

\* The generator each property setter assigns to.
Backing_leftForRight(parameter) ==
    CASE parameter = "f" -> "_f"
      [] parameter = "A" -> "_A"
      [] parameter = "f_L" -> "_f_L"
      [] parameter = "A_L" -> "_A_L"
      [] parameter = "f_R" -> "_f_L"
      [] parameter = "A_R" -> "_A_R"

Backing(parameter) ==
    CASE parameter = "f" -> "_f"
      [] parameter = "A" -> "_A"
      [] parameter = "f_L" -> "_f_L"
      [] parameter = "A_L" -> "_A_L"
      [] parameter = "f_R" -> "_f_R"
      [] parameter = "A_R" -> "_A_R"

\* The frequency generator and the phase of each amplitude generator's channel.
Channel(a) ==
    CASE a = "_A" -> [f |-> "_f", theta |-> "_theta"]
      [] a = "_A_L" -> [f |-> "_f_L", theta |-> "_theta_L"]
      [] a = "_A_R" -> [f |-> "_f_R", theta |-> "_theta_R"]

Amplitudes(class) == IF class = "PureToneMono" THEN {"_A"} ELSE {"_A_L", "_A_R"}

\* The values assigned to a parameter: no setter looks at the value, so a
\* frequency may get a negative one and an amplitude one above the constructor's limit.
AssignedValues == FreqValues \cup AmpValues

\* PureToneMono(f=f, A=A, duration=d) or PureToneStereo(f_L=f, f_R=f, A_L=A, A_R=A,
\* duration=d), lines 149-156 and 209-219, then play(), lines 100-103.
PureTone(class, f, A, d) ==
    [class |-> class,
     generators |-> [a \in Range(Generators(class)) |->
                        IF a \in Amplitudes(class) THEN EnvelopeGenerator(A, MaxRate)
                        ELSE EnvelopeGenerator(f, HalfFs)],
     theta |-> [a \in Amplitudes(class) |-> 0],
     frame |-> 0, pa_flag |-> "paContinue", duration |-> d, active |-> TRUE,
     op |-> "play", parameter |-> "none", value |-> 0, assigned |-> 0,
     data |-> <<>>]

InitParam ==
    /\ NoEnv
    /\ NoTone
    /\ NoCtor
    /\ NoAdj
    /\ NoMoA
    /\ NoSlider
    /\ NoQuiet
    /\ \E class \in ToneClasses, f \in FreqValues, A \in AmpValues, d \in Durations :
          tone = PureTone(class, f, A, d)

\* stimulus.<parameter> = value: the property setter, then the setpoint setter.
Assign(parameter, value) ==
    /\ parameter \in ToneParameters(tone.class)
    /\ tone.assigned < MaxAssign
    /\ tone' = [tone EXCEPT !.generators[Backing(parameter)] = set(@, value),
                            !.op = "set", !.parameter = parameter, !.value = value,
                            !.assigned = @ + 1, !.data = <<>>]
    /\ UNCHANGED <<envVars, threadVars, toneVars, ctor, adj, moa, issued, slider, quiet>>

\* The next(frame_count) calls of a callback, one generator after the other, up
\* to the first that raises: the generators afterwards, and whether one raised.
RECURSIVE NextAll(_, _, _, _)
NextAll(gens, order, i, n) ==
    IF i > Len(order) THEN [generators |-> gens, raised |-> FALSE]
    ELSE LET r == next(gens[order[i]], n) IN
         IF r.raised THEN [generators |-> gens, raised |-> TRUE]
         ELSE NextAll([gens EXCEPT ![order[i]] = r.gen], order, i + 1, n)

\* lines 241-246 (165-166): the accumulated phase of the channel of amplitude
\* generator a over a callback of n frames, from the channel's own frequency
\* generator and carried phase.
ChannelAccum(gens, th, a, n) == theta_accum(next(gens[Channel(a).f], n).out, th[a])

\* lines 249-253 (167-170): the n samples of that channel.
ChannelSamples(gens, th, a, n) ==
    Samples(next(gens[a], n).out, ChannelAccum(gens, th, a, n))

\* lines 247-253: data[0::2] takes the left samples and data[1::2] the right ones.
interleave_blockwise(L, R) == L \o R

interleave(L, R) ==
    [i \in 1 .. 2 * Len(L) |-> IF i % 2 = 1 THEN L[(i + 1) \div 2] ELSE R[i \div 2]]

\* The buffer a callback of n frames returns.
callback_data(t, n) ==
    IF t.class = "PureToneMono" THEN ChannelSamples(t.generators, t.theta, "_A", n)
    ELSE interleave(ChannelSamples(t.generators, t.theta, "_A_L", n),
                    ChannelSamples(t.generators, t.theta, "_A_R", n))

\* The callback of the playing tone: Stimulus.callback (the frame counter and the
\* flag), the generators, then the phase and the samples of each channel.
tone_callback ==
    LET n == frames_per_buffer
        r == NextAll(tone.generators, Generators(tone.class), 1, n)
    IN
    /\ tone.active
    /\ tone.pa_flag # "paComplete"
    /\ tone.frame + n <= MaxFrames
    /\ tone' = [tone EXCEPT
                  !.frame = @ + n,
                  !.pa_flag = IF Complete(tone.frame, tone.duration) THEN "paComplete" ELSE @,
                  !.generators = r.generators,
                  !.theta = IF r.raised THEN @
                            ELSE [a \in DOMAIN @ |->
                                    ChannelAccum(tone.generators, @, a, n)[n] % Turn],
                  !.data = IF r.raised THEN <<>> ELSE callback_data(tone, n),
                  !.active = ~r.raised,
                  !.op = "callback", !.parameter = "none", !.value = 0]
    /\ UNCHANGED <<envVars, threadVars, toneVars, ctor, adj, moa, issued, slider, quiet>>

NextParam ==
    \/ \E parameter \in ToneParameters("PureToneStereo") \cup ToneParameters("PureToneMono"),
          value \in AssignedValues : Assign(parameter, value)
    \/ tone_callback

SpecParam == InitParam /\ [][NextParam]_vars

\* ------------------------------------------------------------ QFloatSlider
\* The values handed to the slider's properties, in units that keep them whole.
SliderValues == 0 .. MaxSlider

\* x / p != int(x / p), for p other than zero, in exact arithmetic.
NotIntegerMultiple(x, p) == x % Abs(p) # 0

\* The slider as the setter left it, and how the setter ended.
Rejected(s, error) == [s EXCEPT !.raised = error]

\* The minimum setter, lines 44-55.
set_minimum(s, value) ==
    IF s.precision = 0 THEN Rejected(s, "ZeroDivisionError")
    ELSE IF NotIntegerMultiple(s.maximum - value, s.precision)
    THEN Rejected(s, "ValueError")
    ELSE [s EXCEPT !.minimum = value, !.raised = "none"]

\* The maximum setter, lines 62-73.
set_maximum(s, value) ==
    IF s.precision = 0 THEN Rejected(s, "ZeroDivisionError")
    ELSE IF NotIntegerMultiple(value - s.minimum, s.precision)
    THEN Rejected(s, "ValueError")
    ELSE [s EXCEPT !.maximum = value, !.raised = "none"]

\* The pagePrecision setter, lines 101-110.
set_pagePrecision(s, value) ==
    IF s.precision = 0 THEN Rejected(s, "ZeroDivisionError")
    ELSE IF NotIntegerMultiple(value, s.precision)
    THEN Rejected(s, "ValueError")
    ELSE [s EXCEPT !.pagePrecision = value, !.raised = "none"]

\* The precision setter, lines 80-94: two checks, the assignment, then the other
\* three properties assigned to themselves.
set_precision(s, value) ==
    IF value = 0 THEN Rejected(s, "ZeroDivisionError")
    ELSE IF NotIntegerMultiple(s.maximum - s.minimum, value)
    THEN Rejected(s, "ValueError")
    ELSE IF NotIntegerMultiple(s.pagePrecision, value)
    THEN Rejected(s, "ValueError")
    ELSE LET s1 == [s EXCEPT !.precision = value, !.raised = "none"]
             s2 == set_minimum(s1, s1.minimum)
             s3 == IF s2.raised # "none" THEN s2 ELSE set_maximum(s2, s2.maximum)
         IN IF s3.raised # "none" THEN s3 ELSE set_pagePrecision(s3, s3.pagePrecision)

\* setRange, lines 133-136: the maximum, then, unless that raised, the minimum.
setRange(s, minimum, maximum) ==
    LET s1 == set_maximum(s, maximum)
    IN IF s1.raised # "none" THEN s1 ELSE set_minimum(s1, minimum)

\* __init__, lines 24-34: the four fields, then the four setters, up to the first
\* that raises.
QFloatSlider(minimum, maximum, precision, pagePrecision) ==
    LET s0 == [minimum |-> minimum, maximum |-> maximum, precision |-> precision,
               pagePrecision |-> pagePrecision, op |-> "__init__", raised |-> "none"]
        s1 == set_minimum(s0, minimum)
        s2 == IF s1.raised # "none" THEN s1 ELSE set_maximum(s1, maximum)
        s3 == IF s2.raised # "none" THEN s2 ELSE set_precision(s2, precision)
    IN IF s3.raised # "none" THEN s3 ELSE set_pagePrecision(s3, pagePrecision)

\* A slider whose construction has succeeded.
InitSlider ==
    /\ NoEnv
    /\ NoTone
    /\ NoCtor
    /\ NoAdj
    /\ NoMoA
    /\ NoStimulus
    /\ NoQuiet
    /\ \E minimum \in SliderValues, maximum \in SliderValues,
          precision \in SliderValues, pagePrecision \in SliderValues :
          /\ slider = QFloatSlider(minimum, maximum, precision, pagePrecision)
          /\ slider.raised = "none"

\* slider.minimum = value
SetMinimum(value) ==
    /\ slider' = [set_minimum(slider, value) EXCEPT !.op = "minimum"]
    /\ UNCHANGED <<envVars, threadVars, toneVars, ctor, adj, moa, issued, tone, quiet>>

\* slider.maximum = value
SetMaximum(value) ==
    /\ slider' = [set_maximum(slider, value) EXCEPT !.op = "maximum"]
    /\ UNCHANGED <<envVars, threadVars, toneVars, ctor, adj, moa, issued, tone, quiet>>

\* slider.precision = value
SetPrecision(value) ==
    /\ slider' = [set_precision(slider, value) EXCEPT !.op = "precision"]
    /\ UNCHANGED <<envVars, threadVars, toneVars, ctor, adj, moa, issued, tone, quiet>>

\* slider.pagePrecision = value
SetPagePrecision(value) ==
    /\ slider' = [set_pagePrecision(slider, value) EXCEPT !.op = "pagePrecision"]
    /\ UNCHANGED <<envVars, threadVars, toneVars, ctor, adj, moa, issued, tone, quiet>>

\* slider.setRange(minimum, maximum)
SetRange(minimum, maximum) ==
    /\ slider' = [setRange(slider, minimum, maximum) EXCEPT !.op = "setRange"]
    /\ UNCHANGED <<envVars, threadVars, toneVars, ctor, adj, moa, issued, tone, quiet>>

NextSlider ==
    \/ \E value \in SliderValues : SetMinimum(value)
    \/ \E value \in SliderValues : SetMaximum(value)
    \/ \E value \in SliderValues : SetPrecision(value)
    \/ \E value \in SliderValues : SetPagePrecision(value)
    \/ \E minimum \in SliderValues, maximum \in SliderValues : SetRange(minimum, maximum)

SpecSlider == InitSlider /\ [][NextSlider]_vars

\* ------------------------------------------------ claims, sequential use
\* The values emitted, from the one before the last block to its last.
Trail == <<last_out>> \o envelope

Between(v, a, b) == (a <= v /\ v <= b) \/ (b <= v /\ v <= a)

\* |setpoint - current| <= rate * n / sampleRate, for the last call.
ReachableInBlock ==
    Abs(pre.setpoint - pre.current) * Fs <= pre.rate * n_arg * Grid

\* floor(|setpoint - current| * sampleRate / rate), for the last call.
FloorSamples ==
    (Abs(pre.setpoint - pre.current) * Fs) \div (pre.rate * Grid)

\* C2: next(n) never raises: whenever the setpoint is within reach of the block,
\* floor(|setpoint - current| * sampleRate / rate) is strictly less than n.
C2_NextNeverRaises ==
    last_op = "next" =>
        /\ ~raised
        /\ (~pre.steady_state /\ ReachableInBlock) => FloorSamples < n_arg

\* C3: a next(n) that returns yields exactly n values, in every branch.
C3_ExactlyNValues ==
    (last_op = "next" /\ ~raised) => Len(envelope) = n_arg

C3_Witness ==
    /\ last_op = "next"
    /\ branch = "transition"
    /\ FloorSamples >= 2
    /\ n_arg > FloorSamples
    /\ Len(envelope) = n_arg

\* C4: at rest, next(n) returns n copies of the setpoint and changes nothing of the
\* generator, call after call, until a setpoint is assigned.
C4_SteadyIdempotent ==
    (last_op = "next" /\ pre.steady_state) =>
        /\ envelope = [i \in 1 .. n_arg |-> pre.setpoint]
        /\ env = pre

C4_Witness ==
    /\ last_op = "next"
    /\ pre.steady_state
    /\ changes = 1
    /\ last_out = pre.setpoint
    /\ Len(envelope) = MaxN

\* C5: after a single setpoint change the emitted values stay between the value
\* current had at the change and the setpoint, and none is farther from the
\* setpoint than the one emitted before it, block boundaries included.
C5_MonotonicApproach ==
    (last_op = "next" /\ changes = 1) =>
        /\ \A i \in 1 .. Len(envelope) : Between(envelope[i], start_val, env.setpoint)
        /\ \A i \in 1 .. Len(Trail) - 1 :
              Abs(env.setpoint - Trail[i + 1]) <= Abs(env.setpoint - Trail[i])

C5_Witness ==
    /\ last_op = "next"
    /\ changes = 1
    /\ branch = "ramp"
    /\ last_out # start_val
    /\ Len(envelope) >= 2
    /\ envelope[1] # envelope[2]

\* C6: when the setpoint is within reach of the block, next(n) returns
\* floor(|setpoint - current| * sampleRate / rate) ramp values from current to the
\* setpoint, then the setpoint; its last value is the setpoint, and afterwards
\* current = setpoint and the generator is steady.
C6_ReachesSetpointInBlock ==
    (last_op = "next" /\ ReachableInBlock) =>
        /\ Len(envelope) = n_arg
        /\ \A i \in 1 .. n_arg :
              envelope[i] = IF i > FloorSamples THEN pre.setpoint
                            ELSE IF FloorSamples = 1 THEN pre.current
                            ELSE pre.current
                                 + ((i - 1) * (pre.setpoint - pre.current))
                                   \div (FloorSamples - 1)
        /\ envelope[n_arg] = pre.setpoint
        /\ env.current = pre.setpoint
        /\ env.steady_state

\* C7: any two consecutive emitted values, inside a block and across the boundary
\* of two blocks, differ by at most rate / sampleRate.
C7_StepBoundedByRate ==
    last_op = "next" =>
        \A i \in 1 .. Len(Trail) - 1 :
            Abs(Trail[i + 1] - Trail[i]) * Fs <= pre.rate * Grid

\* ------------------------------------------------ claims, two threads
\* The block next(n) returns from current c against the single target t.
BlockAgainst(c, r, t, n) ==
    next([setpoint |-> t, current |-> c, rate |-> r, steady_state |-> FALSE], n)

\* C1: whatever the interleaving of a setpoint assignment with a next(n) in
\* progress, the block that next(n) returns is the block computed from current
\* against one single value setpoint held during the call: the ramp from current
\* towards it, never a mix of two targets and never the new setpoint unramped.
\* (A target exactly one block's change away, for which the sequential call ends
\* in the assert of line 380, is counted in the claim's favour.)
C1_BlockAgainstOneSetpoint ==
    (pc = "idle" /\ branch \in {"steady", "ramp", "transition"}) =>
        \E t \in targets :
            \/ BlockAgainst(pre.current, pre.rate, t, n_arg).raised
            \/ envelope = BlockAgainst(pre.current, pre.rate, t, n_arg).out

\* ------------------------------------------------ claims, the tone
\* C8: the phase carried out of a buffer, wrapped into [0, 2 pi), is the phase of
\* its last sample and the offset of the next buffer; at constant frequency the
\* phase of the sample at index k since play() is theta0 + (k + 1) * 2 pi f Ts
\* (mod 2 pi) whatever the sizes of the buffers before it, and with the amplitude
\* at rest too the sample itself is the same for every split.
C8_PhaseContinuity ==
    (tone_op = "callback" /\ ~cb_raised) =>
        /\ theta \in 0 .. Turn - 1
        /\ theta = data[frame_count][2]
        /\ f_const =>
              \A i \in 1 .. frame_count :
                  data[i][2] =
                      (theta0 + (time0 + i) * PhaseIncrement(gen_f.setpoint)) % Turn
        /\ (f_const /\ a_const) =>
              \A i \in 1 .. frame_count :
                  data[i] =
                      <<gen_A.setpoint,
                        (theta0 + (time0 + i) * PhaseIncrement(gen_f.setpoint)) % Turn>>

C8_Witness ==
    /\ tone_op = "callback"
    /\ ~cb_raised
    /\ f_const
    /\ a_const
    /\ time0 > 0
    /\ frame_count >= 2
    /\ theta_in # 0
    /\ theta0 # 0
    /\ theta # theta_in

\* C9: a callback returns paComplete exactly when the frame index its buffer
\* begins at exceeds duration * sampleRate; a buffer beginning exactly at
\* duration * sampleRate is not complete.
C9_CompleteIffStartPastDuration ==
    (tone_op = "callback" /\ ~cb_raised) =>
        ((pa_flag = "paComplete") <=> (~duration.inf /\ time0 > duration.s * Fs))

C9_Witness ==
    /\ tone_op = "callback"
    /\ ~cb_raised
    /\ ~duration.inf
    /\ time0 = duration.s * Fs + 1
    /\ pa_flag = "paComplete"

\* C10: once set, the completion flag stays: the only step that clears it is a
\* play() on a stream that is not active, which sets the flag to paContinue and
\* the frame counter to 0 as it starts the stream.
C10_CompletionSticky ==
    [][(pa_flag = "paComplete" /\ pa_flag' # "paComplete") =>
          /\ stream # "active"
          /\ stream' = "active"
          /\ pa_flag' = "paContinue"
          /\ frame' = 0]_vars

C10_Witness ==
    /\ pa_flag = "paComplete"
    /\ stream = "stopped"
    /\ frame > 0

\* C11: play() on a stopped or completed stimulus sets the frame counter and the
\* carried phase to zero before generation restarts: the first buffer after any
\* play() begins at frame 0 with phase offset 0.
C11_PlayResetsPhase ==
    (tone_op = "callback" /\ frame_count > 0 /\ time0 = 0) => theta_in = 0

\* C12: play() while the stream is playing changes neither the frame counter, the
\* completion flag, the carried phase nor the stream's state; the only step
\* that makes the stream active, and the only one that takes the frame counter
\* back to 0, is a play() on a stream that is stopped (by stop() or by having
\* completed) and not closed.
C12_PlayWhilePlayingNoOp ==
    [][/\ Play_active => UNCHANGED <<frame, pa_flag, theta, stream>>
       /\ (stream # "active" /\ stream' = "active") =>
              /\ stream \in {"stopped", "finished"}
              /\ tone_op' = "play"
              /\ frame' = 0
       /\ (frame # 0 /\ frame' = 0) =>
              /\ stream # "active"
              /\ stream' = "active"
              /\ tone_op' = "play"]_vars

C12_Witness ==
    /\ tone_op = "play"
    /\ stream = "active"
    /\ frame > 0
    /\ theta # 0
    /\ pa_flag = "paComplete"

C14_ClosedIsTerminal ==
    [][stream = "closed" =>
          /\ stream' = "closed"
          /\ tone_op' # "callback"
          /\ UNCHANGED <<frame, theta, pa_flag, gen_f, gen_A>>]_vars

C14_Witness ==
    /\ stream = "closed"
    /\ tone_op = "error"
    /\ frame > 0
    /\ theta # 0

\* ------------------------------------------------ claims, construction
\* C15: constructing a stimulus with a sample rate outside {44100, 48000} fails
\* with an error raised to the caller before any audio device or stream is
\* opened: such a call never gets to create the PyAudio object or the stream,
\* never completes, and where it ends it has raised.
C15_SampleRateCheckedBeforeDevice ==
    ctor.Fs \notin {44100, 48000} =>
        /\ ~ctor.pa_obj
        /\ ~ctor.stream
        /\ ctor.pc \in {"validate", "fields", "check_Fs", "raised"}
        /\ ctor.pc = "raised" => ctor.error # "none"

C15_Witness ==
    /\ ctor.Fs \notin {0, 44100, 48000}
    /\ ctor.pc = "raised"
    /\ ctor.error = "ValueError"
    /\ ctor.generators = 4

\* An initial amplitude above 0 in dB mode or above 1 in linear mode, on either
\* channel of a stereo tone.
AmplitudeOutOfRange ==
    LET limit == IF ctor.volume_mode = "DB" THEN 0 ELSE 1
    IN /\ ctor.class \in NewTones
       /\ ctor.volume_mode \in {"DB", "LINEAR"}
       /\ \/ ctor.A_L > limit
          \/ ctor.class = "stimulus.PureToneStereo" /\ ctor.A_R > limit

\* C16: construction rejects an initial amplitude above 0 (dB mode) or above 1
\* (linear mode), for the stereo tone on either channel, and on rejection no
\* generator, PyAudio object or stream has been created.
C16_AmplitudeRejectedAtConstruction ==
    AmplitudeOutOfRange =>
        /\ ctor.pc \in {"validate", "raised"}
        /\ ctor.pc = "raised" => ctor.error = "ValueError"
        /\ ctor.generators = 0
        /\ ~ctor.pa_obj
        /\ ~ctor.stream

C16_Witness ==
    /\ ctor.class = "stimulus.PureToneStereo"
    /\ ctor.volume_mode = "DB"
    /\ ctor.A_L <= 0
    /\ ctor.A_R > 0
    /\ ctor.Fs \in supported_sample_rates
    /\ ctor.pc = "raised"

\* ------------------------------------------------ claims, adjustment
\* C17: an adjustment that names something outside the stimulus's declared
\* parameters fails with an error and changes no parameter of the stimulus.
C17_UnknownNameChangesNothing ==
    (\E i \in 1 .. Len(adj.kwargs) : adj.kwargs[i][1] \notin {"A", "f"}) =>
        /\ adj.raised
        /\ adj.stim = adj.pre

\* ------------------------------------------------ claims, method of adjustment
\* C18: after selectTest and after every update tick the candidate pool holds no
\* value that is in the log of the test parameter.
C18_PoolDisjointFromHistory ==
    moa.parameterList \cap Range(moa.log) = {}

C18_Witness ==
    /\ moa.op = "updateData"
    /\ moa.returned
    /\ moa.parameterSearchPrecision < InitialPrecision
    /\ moa.parameterList # {}
    /\ \E i \in 1 .. Len(moa.log) :
          /\ i > 1
          /\ moa.log[i] % moa.parameterSearchPrecision = 0
          /\ moa.log[i] < TestMax(moa.selectedTest)

\* C19: between one selectTest and the next no value is issued twice: each value
\* an update tick chooses differs from the default the test started at and from
\* every value chosen by an earlier tick, pool regenerations included.
C19_NoProbeIssuedTwice ==
    /\ Len(issued) > 0 => issued[1] = TestDefault
    /\ \A i, j \in 1 .. Len(issued) : issued[i] = issued[j] => i = j

C19_Witness ==
    /\ Len(issued) > DomainMult + 1
    /\ moa.parameterSearchPrecision * 4 <= InitialPrecision

\* A step that is an update tick (an updateData that returned True), and whether
\* the pool it found, less the log with the value just logged, was empty.
Tick == moa'.op = "updateData" /\ moa'.returned

Exhausted == moa.parameterList \ Range(moa'.log) = {}

\* C20: within a test (selectTest configures it anew) the search precision
\* changes only in an update tick whose history-filtered pool is empty; it then
\* becomes exactly half of what it was and the pool becomes the multiples of
\* the new precision strictly below the domain's max, less the history; in a
\* tick whose filtered pool is not empty the precision stays and the pool is
\* the filtered one.  With max 15000 and precision 1000 there are 14 first
\* candidates, and at precision 500 the candidates span 500 .. 14500.
C20_PrecisionHalvesOnExhaustion ==
    [][/\ (moa'.parameterSearchPrecision # moa.parameterSearchPrecision
           /\ moa'.op # "selectTest") => (Tick /\ Exhausted)
       /\ (Tick /\ Exhausted) =>
              /\ 2 * moa'.parameterSearchPrecision = moa.parameterSearchPrecision
              /\ moa'.parameterList =
                    {v \in 1 .. TestMax(moa.selectedTest) - 1 :
                        v % moa'.parameterSearchPrecision = 0} \ Range(moa'.log)
       /\ (Tick /\ ~Exhausted) =>
              /\ moa'.parameterSearchPrecision = moa.parameterSearchPrecision
              /\ moa'.parameterList = moa.parameterList \ Range(moa'.log)
       /\ Cardinality(arange(1000, 15000, 1000)) = 14
       /\ arange(500, 15000, 500) = {500 * k : k \in 1 .. 29}]_vars

C20_Witness ==
    /\ moa.op = "updateData"
    /\ moa.returned
    /\ moa.selectedTest = "Hearing Threshold"
    /\ Len(moa.log) = DomainMult - 1
    /\ moa.parameterSearchPrecision * 2 = InitialPrecision
    /\ Cardinality(moa.parameterList) = DomainMult

\* C21: choosing the next probe never fails: in every update tick the list that
\* random.choice is given, after at most one halving and regeneration, is not
\* empty, so that no tick ends in the IndexError of an empty choice.
C21_ChoiceNeverFails ==
    /\ moa.raised # "IndexError"
    /\ (moa.selectedTest # "none" /\ Len(moa.log) < MaxTicks) => ChoiceList # {}

\* A tick has chosen from a pool regenerated for the second time.
C21_Witness ==
    /\ moa.op = "updateData"
    /\ moa.returned
    /\ moa.raised = "none"
    /\ moa.value % (2 * moa.parameterSearchPrecision) = moa.parameterSearchPrecision
    /\ moa.parameterSearchPrecision * 4 = InitialPrecision

\* Every series of r (the test parameter's, the user parameter's and those of the
\* other parameters) has k entries.
AllSeries(r, k) ==
    /\ Len(r.log) = k
    /\ Len(r.user_log) = k
    /\ \A p \in DOMAIN r.logs : Len(r.logs[p]) = k

\* s is t with one more entry at its end.
OneMore(s, t) == Len(s) = Len(t) + 1 /\ SubSeq(s, 1, Len(t)) = t

\* C22: the logs are append-only and aligned: an accepted update tick appends one
\* value to the series of every parameter, any other step but a reset (selectTest)
\* leaves every series as it is, and after every step all series have one length,
\* the number of accepted ticks since the last reset.
C22_LogsAppendOnlyAligned ==
    [][/\ AllSeries(moa', moa'.ticks)
       /\ moa'.op # "selectTest" =>
             /\ DOMAIN moa'.logs = DOMAIN moa.logs
             /\ IF Tick
                THEN /\ moa'.ticks = moa.ticks + 1
                     /\ OneMore(moa'.log, moa.log)
                     /\ OneMore(moa'.user_log, moa.user_log)
                     /\ \A p \in DOMAIN moa.logs : OneMore(moa'.logs[p], moa.logs[p])
                ELSE /\ moa'.ticks = moa.ticks
                     /\ moa'.log = moa.log
                     /\ moa'.user_log = moa.user_log
                     /\ moa'.logs = moa.logs]_vars

\* Three ticks of a match have been logged: six series of three entries each.
C22_Witness ==
    /\ moa.selectedTest = "Tone Match"
    /\ moa.op = "updateData"
    /\ moa.returned
    /\ moa.ticks = 3
    /\ Cardinality(DOMAIN moa.logs) = 4
    /\ AllSeries(moa, 3)

\* C23: setting the user parameter to v and then recording logs exactly v: the
\* entry an accepted tick appends to the user parameter's series is the value last
\* assigned to the parameter, wherever the ramp towards it stands.
C23_RecordLogsIntent ==
    [][Tick => moa'.user_log[Len(moa'.user_log)] = moa.intent]_vars

\* A tick has recorded the value adjustStimulus set while the generator was still
\* on its way to it.
C23_Witness ==
    /\ moa.op = "updateData"
    /\ moa.returned
    /\ moa.ramping
    /\ moa.adjusts > 0
    /\ moa.user_log[Len(moa.user_log)] # UserDefault

\* C24: a selectTest that succeeded leaves no recorded series behind: there is one
\* empty series for each parameter of the new stimulus and no other, the results
\* hold no entry, and the candidate pool and the search precision are those of a
\* fresh test.
C24_SelectTestResetsLogs ==
    (moa.op = "selectTest" /\ moa.raised = "none") =>
        /\ moa.log = <<>>
        /\ moa.user_log = <<>>
        /\ DOMAIN moa.logs \cup {TestParameter(moa.selectedTest), UserParameter(moa.selectedTest)}
              = StimulusParameters(moa.selectedTest)
        /\ \A p \in DOMAIN moa.logs : moa.logs[p] = <<>>
        /\ moa.testResults.independent = <<>>
        /\ moa.testResults.dependent = <<>>
        /\ moa.ticks = 0
        /\ moa.parameterSearchPrecision = InitialPrecision
        /\ moa.parameterList =
              {v \in 1 .. TestMax(moa.selectedTest) - 1 : v % InitialPrecision = 0}

\* The hearing threshold has been selected over a test that had entries recorded.
C24_Witness ==
    /\ moa.op = "selectTest"
    /\ moa.discarded
    /\ moa.selectedTest = "Hearing Threshold"
    /\ DOMAIN moa.logs = {"duration"}

\* C29: every value the test parameter is given lies within the bounds the test
\* configures for it, testStimulus['min'] and testStimulus['max'].
C29_ProbeWithinBounds ==
    \A i \in 1 .. Len(issued) :
        TestMin <= issued[i] /\ issued[i] <= TestMax(moa.selectedTest)

\* C30: updateData while no test is in progress returns False and changes nothing:
\* no series gets an entry, the results, the pool and the precision stay, and
\* neither the test parameter nor the user parameter is touched.
C30_IdleUpdateChangesNothing ==
    [][(moa'.op = "updateData" /\ ~moa.testInProgress) =>
          /\ ~moa'.returned
          /\ moa'.raised = "none"
          /\ ~moa'.testInProgress
          /\ moa'.selectedTest = moa.selectedTest
          /\ moa'.log = moa.log
          /\ moa'.user_log = moa.user_log
          /\ moa'.logs = moa.logs
          /\ moa'.ticks = moa.ticks
          /\ moa'.testResults = moa.testResults
          /\ moa'.parameterList = moa.parameterList
          /\ moa'.parameterSearchPrecision = moa.parameterSearchPrecision
          /\ moa'.value = moa.value
          /\ moa'.user = moa.user
          /\ issued' = issued]_vars

\* updateData has returned False after stopTest, over a session with entries
\* recorded and the user parameter on its way to a new value.
C30_Witness ==
    /\ moa.op = "updateData"
    /\ ~moa.returned
    /\ ~moa.testInProgress
    /\ moa.ticks > 1
    /\ moa.user.current # moa.user.setpoint

\* x is a whole multiple of p.
IsMultiple(x, p) == IF p = 0 THEN x = 0 ELSE x % Abs(p) = 0

\* C25: after a setter call that succeeded, the range (maximum - minimum) is a
\* whole multiple of precision and of pagePrecision, and pagePrecision is a whole
\* multiple of precision.
C25_SliderInvariants ==
    (slider.op \in {"minimum", "maximum", "precision", "pagePrecision", "setRange"}
        /\ slider.raised = "none") =>
        /\ IsMultiple(slider.maximum - slider.minimum, slider.precision)
        /\ IsMultiple(slider.maximum - slider.minimum, slider.pagePrecision)
        /\ IsMultiple(slider.pagePrecision, slider.precision)

\* The generator a property of the tone is documented to drive: the private
\* attribute of the same name.
Driven(parameter) ==
    CASE parameter = "f" -> "_f"
      [] parameter = "A" -> "_A"
      [] parameter = "f_L" -> "_f_L"
      [] parameter = "A_L" -> "_A_L"
      [] parameter = "f_R" -> "_f_R"
      [] parameter = "A_R" -> "_A_R"

\* C26: assigning a parameter of a tone puts the value, whatever it is, into the
\* setpoint of the generator behind that parameter and marks it not steady; that
\* generator's current value and rate, every other generator, the phases, the
\* frame counter and the completion flag stay as they were.
C26_AssignmentTouchesOneSetpoint ==
    [][tone'.op = "set" =>
          LET a == Driven(tone'.parameter) IN
          /\ tone'.generators[a].setpoint = tone'.value
          /\ ~tone'.generators[a].steady_state
          /\ tone'.generators[a].current = tone.generators[a].current
          /\ tone'.generators[a].rate = tone.generators[a].rate
          /\ \A b \in DOMAIN tone.generators \ {a} :
                tone'.generators[b] = tone.generators[b]
          /\ DOMAIN tone'.generators = DOMAIN tone.generators
          /\ tone'.theta = tone.theta
          /\ tone'.frame = tone.frame
          /\ tone'.pa_flag = tone.pa_flag
          /\ tone'.active = tone.active]_vars

\* The right frequency of a stereo tone has been assigned a negative value while
\* the left one was on a ramp, after a callback had moved the phases.
C26_Witness ==
    /\ tone.class = "PureToneStereo"
    /\ tone.op = "set"
    /\ tone.parameter = "f_R"
    /\ tone.value < 0
    /\ tone.generators["_f_R"].setpoint = tone.value
    /\ tone.generators["_f_R"].current > 0
    /\ ~tone.generators["_f_L"].steady_state
    /\ tone.generators["_f_L"].setpoint # tone.generators["_f_L"].current
    /\ tone.theta["_A_R"] # 0
    /\ tone.frame > 0

\* C27: in every reachable state, those between the statements of a setpoint
\* assignment and of a next(n) running at once included, a steady generator has
\* current equal to setpoint.
C27_SteadyMeansAtSetpoint ==
    env.steady_state => env.current = env.setpoint

\* The generator is at rest on its setpoint and what the last next(n) returned,
\* if anything, is that value only.
Settled ==
    /\ env.steady_state
    /\ env.current = env.setpoint
    /\ \A i \in 1 .. Len(envelope) : envelope[i] = env.setpoint

\* C28: no setpoint write is lost: once the assignments have ceased and next(n)
\* keeps being called with one n, the generator comes to rest on the setpoint
\* assigned last and from then on emits nothing but that value.
C28_NoWriteLost ==
    quiet.ceased ~> []Settled

\* What selectTest with a name outside self.tests is to leave alone: the selected
\* test, the stimulus and its stream, both parameters, the logs, the pool with its
\* precision, and the test-in-progress flag.
SessionState(m) ==
    <<m.selectedTest, m.stream, m.pa_flag, m.others, m.value, m.user, m.log, m.user_log,
      m.logs, m.parameterList, m.parameterSearchPrecision, m.testInProgress>>

\* C31: selectTest with a name that is not in the test list raises ValueError and
\* leaves the session as it was: the selected test, the stimulus and whether it
\* plays, the logs, the candidate pool and the test-in-progress flag.
C31_InvalidTestChangesNothing ==
    [][(moa'.op = "selectTest" /\ moa'.raised = "ValueError")
        => SessionState(moa') = SessionState(moa)]_vars

\* C32: after every update tick that was accepted the user parameter's setpoint is
\* its default and the test parameter's setpoint is the probe just chosen from the
\* list given to random.choice, whatever the user had adjusted to; and the value the
\* tick logged for the user parameter is the setpoint it had before that reset.
C32_TickResetsUserAndSetsProbe ==
    [][(moa'.op = "updateData" /\ moa'.returned)
        => /\ moa'.user.setpoint = UserDefault
           /\ moa'.value \in ChoiceList
           /\ moa'.value = issued'[Len(issued')]
           /\ Len(moa'.user_log) = Len(moa.user_log) + 1
           /\ moa'.user_log[Len(moa'.user_log)] = moa.user.setpoint]_vars

\* An accepted tick has logged a value the user had adjusted away from the default
\* and has put the user parameter back to the default.
C32_Witness ==
    /\ moa.op = "updateData"
    /\ moa.returned
    /\ moa.user_log[Len(moa.user_log)] # UserDefault
    /\ moa.user.setpoint = UserDefault
    /\ moa.value = issued[Len(issued)]

\* C33: whatever the sequence of selectTest, startTest, stopTest, adjustStimulus and
\* updateData calls, the object has no open stream besides the one of its current
\* stimulus, and the stimulus it references is never a closed one.
C33_OneOpenStream ==
    moa.selectedTest # "none" => (moa.others = 0 /\ moa.stream \notin {"closed", "none"})

\* selectTest has replaced a stimulus whose stream was playing by a new one.
C33_Witness ==
    /\ moa.op = "selectTest"
    /\ moa.raised = "none"
    /\ moa.replaced = "active"
    /\ moa.stream = "stopped"
    /\ moa.others = 0

\* C34: the test-in-progress flag is set exactly while the current stimulus has been
\* started and neither stopped nor replaced since: a set flag means a stream that
\* was started and is not stopped or closed, a clear flag a stream that does not play.
C34_FlagMatchesStream ==
    moa.selectedTest # "none" =>
        /\ moa.testInProgress => (moa.stream \in {"active", "finished"} /\ moa.pa_flag # "unset")
        /\ ~moa.testInProgress => moa.stream # "active"

\* What a stopTest and a startTest are to carry over: the logs, the results, the
\* pool with its precision, the selected test and the setpoints of both parameters.
Carried(m) ==
    <<m.selectedTest, m.log, m.user_log, m.logs, m.testResults, m.parameterList,
      m.parameterSearchPrecision, m.value, m.user.setpoint>>

\* C35: stopTest followed by startTest with no selectTest between continues the
\* session: neither call changes the logs, the pool, the precision or a setpoint
\* (only the stream and what play() resets change).
C35_StopStartContinues ==
    [][moa'.op \in {"stopTest", "startTest"} => Carried(moa') = Carried(moa)]_vars

\* startTest has started again a stream that had played and was stopped, in a
\* session that has a tick logged and the user parameter away from its default.
C35_Witness ==
    /\ moa.op = "startTest"
    /\ moa.resumed
    /\ moa.stream = "active"
    /\ Len(moa.log) > 0
    /\ moa.user.setpoint # UserDefault

\* The sum of a sequence of numbers.
RECURSIVE Sum(_)
Sum(q) == IF q = <<>> THEN 0 ELSE q[1] + Sum(Tail(q))

\* The k-th sample of a channel, from nothing but that channel's two generators
\* and its carried phase: the amplitude value and the phase within the turn.
OwnSample(f, A, th, n, k) ==
    <<next(A, n).out[k], (th + Sum(SubSeq(next(f, n).out, 1, k))) % Turn>>

\* C36: the stereo tone's callback of frame_count frames returns 2 * frame_count
\* samples interleaved L, R, L, R, ...: the samples at the even offsets 0, 2, ...
\* are those of the left channel's frequency and amplitude generators and left
\* carried phase, those at the odd offsets are the right channel's, and each
\* channel's carried phase moves on by the sum of its own frequency values only.
C36_StereoInterleaved ==
    [][(tone'.op = "callback" /\ tone.class = "PureToneStereo" /\ tone'.active) =>
        LET n == frames_per_buffer
            g == tone.generators
        IN /\ Len(tone'.data) = 2 * n
           /\ \A k \in 1 .. n :
                /\ tone'.data[2 * k - 1] = OwnSample(g["_f_L"], g["_A_L"], tone.theta["_A_L"], n, k)
                /\ tone'.data[2 * k] = OwnSample(g["_f_R"], g["_A_R"], tone.theta["_A_R"], n, k)
           /\ tone'.theta["_A_L"] =
                (tone.theta["_A_L"] + Sum(next(g["_f_L"], n).out)) % Turn
           /\ tone'.theta["_A_R"] =
                (tone.theta["_A_R"] + Sum(next(g["_f_R"], n).out)) % Turn]_vars

\* A stereo callback has returned a buffer whose left and right samples differ in
\* amplitude and in phase, the carried phases of the two channels being different.
C36_Witness ==
    /\ tone.class = "PureToneStereo"
    /\ tone.op = "callback"
    /\ tone.active
    /\ Len(tone.data) = 2 * frames_per_buffer
    /\ tone.data[1][1] # tone.data[2][1]
    /\ tone.data[1][2] # tone.data[2][2]
    /\ tone.data[3] # tone.data[1]
    /\ tone.theta["_A_L"] # tone.theta["_A_R"]

\* C37: setRange(minimum, maximum) succeeds for every pair whose difference is an
\* integer multiple of the slider's precision, whatever range the slider had before;
\* and when setRange raises ValueError the minimum and the maximum are both as they
\* were before the call.
C37_SetRangeByDifferenceOrUntouched ==
    [][slider'.op = "setRange" =>
        /\ \A minimum \in SliderValues, maximum \in SliderValues :
              IsMultiple(maximum - minimum, slider.precision)
                  => setRange(slider, minimum, maximum).raised = "none"
        /\ slider'.raised = "ValueError" =>
              (slider'.minimum = slider.minimum /\ slider'.maximum = slider.maximum)]_vars

====
